---------------------------- MODULE Spec2Model ----------------------------
(***************************************************************************)
(* A state-machine model of the BrainBox Hebbian memory engine of          *)
(* NeuroVault (class BrainBoxDB): the SQLite tables neurons, synapses,      *)
(* access_log and sessions, the in-memory co-access window, and the         *)
(* operations record, recall, decay, stats, close and the constructor.      *)
(*                                                                         *)
(* Representation choices                                                   *)
(*  - A string is a sequence of characters, a character a one-letter        *)
(*    TLA+ string, so that JSON encoding, LIKE matching, lower-casing and   *)
(*    whitespace splitting are computed and not assumed.                    *)
(*  - A REAL column is a fixed-point integer with Scale units to 1.0;       *)
(*    products round down.  SQLite and JavaScript use IEEE-754 doubles;     *)
(*    the model's values differ from them by rounding only.                 *)
(*  - A timestamp is a number of milliseconds (Date.now()) counted from     *)
(*    the creation of the store; its ISO-8601 and SQLite renderings are     *)
(*    computed where the code compares them as text.                        *)
(*  - Columns the engine writes but never reads (created_at, last_fired,    *)
(*    embedding, ended_at, tokens_saved, hit_rate) are left out.            *)
(***************************************************************************)
EXTENDS Integers, Sequences, FiniteSets, TLC

\* ------------------------------------------------------------------------
\* Fixed-point arithmetic
\* ------------------------------------------------------------------------

Scale == 1000 * 1000

Min(a, b) == IF a <= b THEN a ELSE b

Max(a, b) == IF a >= b THEN a ELSE b

\* a * b / Scale rounded down, computed in two halves so that no
\* intermediate product leaves the 32-bit range (a, b < 2 * Scale).
MulS(a, b) == (((a \div 1000) * b) + (((a % 1000) * b) \div 1000)) \div 1000

\* ------------------------------------------------------------------------
\* Program constants (fixed-point)
\* ------------------------------------------------------------------------

LEARNING_RATE == Scale \div 10

MYELIN_RATE == (2 * Scale) \div 100

MYELIN_MAX == (95 * Scale) \div 100

SYNAPSE_DECAY_RATE == (2 * Scale) \div 100

ACTIVATION_DECAY_RATE == (15 * Scale) \div 100

MYELIN_DECAY_RATE == (5 * Scale) \div 1000

SYNAPSE_PRUNE_THRESHOLD == (5 * Scale) \div 100

\* the gate of 0.3 that HANDOVER.md describes
HandoverGate == (3 * Scale) \div 10


CONFIDENCE_GATE == (4 * Scale) \div 10

CO_ACCESS_WINDOW_SIZE == 10

\* contexts.length > 20 in record
MAX_CONTEXTS == 20

\* pruneNeurons: activation < 0.01 AND myelination < 0.01
NEURON_PRUNE_LEVEL == Scale \div 100

\* pruneNeurons: access_count < 2
NEURON_PRUNE_ACCESSES == 2

\* ------------------------------------------------------------------------
\* Strings
\* ------------------------------------------------------------------------

Upper == {"A", "B", "F", "X"}

LowerOf(c) ==
  CASE c = "A" -> "a"
    [] c = "B" -> "b"
    [] c = "F" -> "f"
    [] c = "X" -> "x"
    [] OTHER -> c

\* String.prototype.toLowerCase
ToLowerCase(s) == [i \in 1..Len(s) |-> LowerOf(s[i])]

\* /\s/
IsSpace(c) == c = " "

\* String.prototype.includes
Includes(s, k) ==
  \E i \in 0..(Len(s) - Len(k)) : SubSeq(s, i + 1, i + Len(k)) = k

RECURSIVE SplitFrom(_, _, _)
\* the tokens of s from position i on, cur being the token read so far
SplitFrom(s, i, cur) ==
  IF i > Len(s) THEN <<cur>>
  ELSE IF IsSpace(s[i])
       THEN IF i > 1 /\ IsSpace(s[i - 1])
            THEN SplitFrom(s, i + 1, cur)
            ELSE <<cur>> \o SplitFrom(s, i + 1, <<>>)
       ELSE SplitFrom(s, i + 1, Append(cur, s[i]))

\* String.prototype.split(/\s+/): a run of white space is one separator;
\* leading or trailing white space yields an empty first or last token.
SplitWs(s) == SplitFrom(s, 1, <<>>)

RECURSIVE Join(_, _)
\* Array.prototype.join
Join(list, sep) ==
  IF list = <<>> THEN <<>>
  ELSE IF Len(list) = 1 THEN list[1]
  ELSE list[1] \o sep \o Join(Tail(list), sep)

\* Array.prototype.includes / indexOf on an array: 0 when absent
IndexOf(list, x) ==
  IF \E i \in 1..Len(list) : list[i] = x
  THEN CHOOSE i \in 1..Len(list) :
         list[i] = x /\ \A j \in 1..(i - 1) : list[j] # x
  ELSE 0

\* Array.prototype.splice(idx, 1)
RemoveAt(list, idx) ==
  [i \in 1..(Len(list) - 1) |-> IF i < idx THEN list[i] ELSE list[i + 1]]

\* ------------------------------------------------------------------------
\* JSON text of an array of strings
\* ------------------------------------------------------------------------

RECURSIVE JsonEscape(_)
\* the body of a JSON string literal: quote and backslash are escaped
JsonEscape(s) ==
  IF s = <<>> THEN <<>>
  ELSE (IF Head(s) = "\"" \/ Head(s) = "\\"
        THEN <<"\\", Head(s)>>
        ELSE <<Head(s)>>) \o JsonEscape(Tail(s))

JsonString(s) == <<"\"">> \o JsonEscape(s) \o <<"\"">>

\* JSON.stringify(string[])
JsonStringify(list) ==
  <<"[">> \o Join([i \in 1..Len(list) |-> JsonString(list[i])], <<",">>)
          \o <<"]">>

RECURSIVE ParseStringBody(_, _, _)
\* reads a string literal's body from position i (after the opening quote):
\* the decoded string and the position after the closing quote, or ok = FALSE
ParseStringBody(t, i, acc) ==
  IF i > Len(t) THEN [ok |-> FALSE, val |-> acc, next |-> i]
  ELSE IF t[i] = "\"" THEN [ok |-> TRUE, val |-> acc, next |-> i + 1]
  ELSE IF t[i] = "\\"
       THEN IF i + 1 <= Len(t) /\ (t[i + 1] = "\"" \/ t[i + 1] = "\\")
            THEN ParseStringBody(t, i + 2, Append(acc, t[i + 1]))
            ELSE [ok |-> FALSE, val |-> acc, next |-> i]
       ELSE ParseStringBody(t, i + 1, Append(acc, t[i]))

RECURSIVE ParseItems(_, _, _)
\* reads "s1","s2",...] from position i (an item is expected at i)
ParseItems(t, i, acc) ==
  IF i > Len(t) \/ t[i] # "\"" THEN [ok |-> FALSE, val |-> acc]
  ELSE LET s == ParseStringBody(t, i + 1, <<>>) IN
       IF ~s.ok \/ s.next > Len(t) THEN [ok |-> FALSE, val |-> acc]
       ELSE IF t[s.next] = "]"
            THEN [ok |-> s.next = Len(t), val |-> Append(acc, s.val)]
       ELSE IF t[s.next] = ","
            THEN ParseItems(t, s.next + 1, Append(acc, s.val))
       ELSE [ok |-> FALSE, val |-> acc]

\* JSON.parse of the text of an array of strings; ok = FALSE is a SyntaxError
JsonParse(t) ==
  IF Len(t) < 2 \/ t[1] # "[" THEN [ok |-> FALSE, val |-> <<>>]
  ELSE IF t = <<"[", "]">> THEN [ok |-> TRUE, val |-> <<>>]
  ELSE ParseItems(t, 2, <<>>)

\* ------------------------------------------------------------------------
\* SQL LIKE
\* ------------------------------------------------------------------------

RECURSIVE Like(_, _)
\* text LIKE pattern: % matches any run, _ any one character, letters
\* compare without regard to (ASCII) case
Like(p, t) ==
  IF p = <<>> THEN t = <<>>
  ELSE IF Head(p) = "%"
       THEN \E k \in 0..Len(t) : Like(Tail(p), SubSeq(t, k + 1, Len(t)))
  ELSE IF t = <<>> THEN FALSE
  ELSE (Head(p) = "_" \/ LowerOf(Head(p)) = LowerOf(Head(t)))
       /\ Like(Tail(p), Tail(t))

\* ------------------------------------------------------------------------
\* Timestamps as text
\* ------------------------------------------------------------------------

SECOND_MS == 1000

MINUTE_MS == 60 * SECOND_MS

HOUR_MS == 60 * MINUTE_MS

DAY_MS == 24 * HOUR_MS

\* computeConfidence: 168 * 3_600_000
WEEK_MS == 168 * HOUR_MS

Digit(d) == <<"0", "1", "2", "3", "4", "5", "6", "7", "8", "9">>[d + 1]

TwoDigits(n) == <<Digit((n \div 10) % 10), Digit(n % 10)>>

ThreeDigits(n) == <<Digit((n \div 100) % 10)>> \o TwoDigits(n)

\* The calendar date of instant t.  YYYY-MM-DD is a fixed-width rendering
\* that orders as the days do; the day's number in four digits stands for it.
DateText(t) == TwoDigits((t \div DAY_MS) \div 100) \o TwoDigits(t \div DAY_MS)

\* HH:MM:SS
ClockText(t) ==
  TwoDigits((t % DAY_MS) \div HOUR_MS) \o <<":">>
    \o TwoDigits((t % HOUR_MS) \div MINUTE_MS) \o <<":">>
    \o TwoDigits((t % MINUTE_MS) \div SECOND_MS)

\* Date.prototype.toISOString: YYYY-MM-DDTHH:MM:SS.sssZ
ToISOString(t) ==
  DateText(t) \o <<"T">> \o ClockText(t) \o <<".">>
    \o ThreeDigits(t % SECOND_MS) \o <<"Z">>

\* SQLite datetime('now', '-1 hour') evaluated at instant t:
\* YYYY-MM-DD HH:MM:SS of one hour earlier (t is at least one hour)
DatetimeMinusOneHour(t) ==
  DateText(t - HOUR_MS) \o <<" ">> \o ClockText(t - HOUR_MS)

\* the code point of a character of a timestamp
CodePoint(c) ==
  CASE c = " " -> 32
    [] c = "-" -> 45
    [] c = "." -> 46
    [] c = "0" -> 48
    [] c = "1" -> 49
    [] c = "2" -> 50
    [] c = "3" -> 51
    [] c = "4" -> 52
    [] c = "5" -> 53
    [] c = "6" -> 54
    [] c = "7" -> 55
    [] c = "8" -> 56
    [] c = "9" -> 57
    [] c = ":" -> 58
    [] c = "T" -> 84
    [] c = "Z" -> 90

RECURSIVE TextGreater(_, _)
\* a > b in SQLite's BINARY collation (memcmp, then the longer is greater)
TextGreater(a, b) ==
  IF a = <<>> THEN FALSE
  ELSE IF b = <<>> THEN TRUE
  ELSE IF Head(a) = Head(b) THEN TextGreater(Tail(a), Tail(b))
  ELSE CodePoint(Head(a)) > CodePoint(Head(b))

\* ------------------------------------------------------------------------
\* State
\* ------------------------------------------------------------------------

VARIABLES
  neurons,         \* table neurons: id -> row
  synapses,        \* table synapses: <<source_id, target_id>> -> row
  access_log,      \* table access_log: its rows in rowid order
  sessions,        \* table sessions: id -> row
  logSeq,          \* the AUTOINCREMENT counter of access_log
  dbOpen,          \* this.db.open
  recentAccesses,  \* this.recentAccesses, the co-access window
  sessionId,       \* this.sessionId
  accessOrder,     \* this.accessOrder
  now,             \* Date.now()
  ret,             \* what the last call did: its name, arguments and outcome
  calls,           \* how many calls of each kind were made (bounds the model)
  recalling,       \* the locals of a recall that another engine instance on
                   \* the same store is running, between two of its queries
  vg,              \* lib/vaultgraph.js: _errorLogged and the locals of the
                   \* recallVaultGraph call, its timer and its child process
  bb,              \* lib/brainbox.js: _performRecall, _importAttempted,
                   \* _errorLogged and the recallBrainBox calls made
  caps,            \* lib/utils.js: _capabilities, the checkCapabilities calls
                   \* made and the probes they started
  combined         \* lib/utils.js: the last combineResults call, its
                   \* arguments and what it returned

vars ==
  <<neurons, synapses, access_log, sessions, logSeq, dbOpen, recentAccesses,
    sessionId, accessOrder, now, ret, calls, recalling, vg, bb, caps, combined>>

\* the variables of the hook's libraries
hostVars == <<vg, bb, caps, combined>>

\* the variables of the engine
brainVars ==
  <<neurons, synapses, access_log, sessions, logSeq, dbOpen, recentAccesses,
    sessionId, accessOrder, now, ret, calls, recalling>>

storeVars == <<neurons, synapses, access_log, sessions, logSeq>>

engineVars == <<recentAccesses, sessionId, accessOrder>>

EmptyTable == [x \in {} |-> x]

\* Neuron["type"] as text
TypeText(type) ==
  CASE type = "file" -> <<"f", "i", "l", "e">>
    [] type = "tool" -> <<"t", "o", "o", "l">>
    [] type = "error" -> <<"e", "r", "r", "o", "r">>
    [] type = "semantic" -> <<"s", "e", "m", "a", "n", "t", "i", "c">>

\* `${type}:${path}`
NeuronId(type, path) == TypeText(type) \o <<":">> \o path

\* token_cost without the test of the type
TokenCostFlat(type) == 1500

\* token_cost: type === "file" ? 1500 : 500
TokenCost(type) == IF type = "file" THEN 1500 ELSE 500

\* the outcome of a call, with the fields a call does not set at their
\* defaults; produced is recall's local `results` before the sort and slice
Outcome(op) ==
  [op |-> op, raised |-> FALSE, id |-> <<>>, query |-> <<>>, type |-> "",
   limit |-> 0, results |-> <<>>, produced |-> <<>>, pruned_synapses |-> 0,
   pruned_neurons |-> 0, stats |-> <<>>]

\* ------------------------------------------------------------------------
\* Prepared statements
\* ------------------------------------------------------------------------

\* m <- MIN(m + MYELIN_RATE * (1 - m), MYELIN_MAX)
Myelinate(m) == Min(m + MulS(MYELIN_RATE, Scale - m), MYELIN_MAX)

\* upsertNeuron whose conflict branch leaves access_count as it is
UpsertNeuronNoCount(ns, id, type, path, activation, myelination, t, contexts) ==
  IF id \in DOMAIN ns
  THEN [ns EXCEPT ![id] =
          [@ EXCEPT !.activation = activation,
                    !.myelination = Myelinate(@),
                    !.last_accessed = t,
                    !.contexts = contexts]]
  ELSE ns @@ (id :> [type |-> type, path |-> path, activation |-> activation,
                     myelination |-> myelination, access_count |-> 1,
                     last_accessed |-> t, contexts |-> contexts])

\* upsertNeuron whose insert branch applies the myelination formula as well
UpsertNeuronEager(ns, id, type, path, activation, myelination, t, contexts) ==
  IF id \in DOMAIN ns
  THEN [ns EXCEPT ![id] =
          [@ EXCEPT !.activation = activation,
                    !.myelination = Myelinate(@),
                    !.access_count = @ + 1,
                    !.last_accessed = t,
                    !.contexts = contexts]]
  ELSE ns @@ (id :> [type |-> type, path |-> path, activation |-> activation,
                     myelination |-> Myelinate(myelination),
                     access_count |-> 1,
                     last_accessed |-> t, contexts |-> contexts])

\* upsertNeuron: a new row takes @myelination and access_count 1; an existing
\* row keeps type and path and advances myelination from its stored value
UpsertNeuron(ns, id, type, path, activation, myelination, t, contexts) ==
  IF id \in DOMAIN ns
  THEN [ns EXCEPT ![id] =
          [@ EXCEPT !.activation = activation,
                    !.myelination = Myelinate(@),
                    !.access_count = @ + 1,
                    !.last_accessed = t,
                    !.contexts = contexts]]
  ELSE ns @@ (id :> [type |-> type, path |-> path, activation |-> activation,
                     myelination |-> myelination, access_count |-> 1,
                     last_accessed |-> t, contexts |-> contexts])

\* weight + delta, without the factor (1.0 - weight)
StrengthenAdding(w, delta) == Min(w + delta, Scale)

\* w <- MIN(w + delta * (1 - w), 1.0)
Strengthen(w, delta) == Min(w + MulS(delta, Scale - w), Scale)

\* upsertSynapse: a new row takes @weight and co_access_count 1
UpsertSynapse(syn, source, target, weight, delta) ==
  IF <<source, target>> \in DOMAIN syn
  THEN [syn EXCEPT ![<<source, target>>] =
          [@ EXCEPT !.weight = Strengthen(@, delta),
                    !.co_access_count = @ + 1]]
  ELSE syn @@ (<<source, target>> :> [weight |-> weight, co_access_count |-> 1])

\* the foreign-key test without PRAGMA foreign_keys = ON: every insert passes
SynapseKeysUnchecked(ns, source, target) == TRUE

\* synapses.source_id and target_id REFERENCES neurons(id), foreign_keys = ON:
\* the insert of a synapse with a missing endpoint fails
SynapseKeysExist(ns, source, target) ==
  source \in DOMAIN ns /\ target \in DOMAIN ns

\* logAccess
LogAccess(log, rowid, id, session, query, t, cost, order) ==
  Append(log, [id |-> rowid, neuron_id |-> id, session_id |-> session,
               query |-> query, timestamp |-> t, token_cost |-> cost,
               access_order |-> order])

\* createSession: INSERT OR IGNORE
CreateSession(ss, id, t) ==
  IF id \in DOMAIN ss THEN ss
  ELSE ss @@ (id :> [started_at |-> t, total_accesses |-> 0, tokens_used |-> 0])

\* updateSession: UPDATE ... WHERE id = @id
UpdateSession(ss, id, tokens) ==
  IF id \in DOMAIN ss
  THEN [ss EXCEPT ![id] = [@ EXCEPT !.total_accesses = @ + 1,
                                    !.tokens_used = @ + tokens]]
  ELSE ss

\* decayAll with the rates subtracted instead of multiplied
DecayAllSubtracting(ns) ==
  [id \in DOMAIN ns |->
     [ns[id] EXCEPT
        !.activation = @ - ACTIVATION_DECAY_RATE,
        !.myelination = @ - MYELIN_DECAY_RATE]]

\* decayAll
DecayAll(ns) ==
  [id \in DOMAIN ns |->
     [ns[id] EXCEPT
        !.activation = MulS(@, Scale - ACTIVATION_DECAY_RATE),
        !.myelination = MulS(@, Scale - MYELIN_DECAY_RATE)]]

\* decaySynapses
DecaySynapses(syn) ==
  [k \in DOMAIN syn |->
     [syn[k] EXCEPT !.weight = MulS(@, Scale - SYNAPSE_DECAY_RATE)]]

\* pruneSynapses: the keys of the rows it deletes
PrunedSynapses(syn) ==
  {k \in DOMAIN syn : syn[k].weight < SYNAPSE_PRUNE_THRESHOLD}

\* pruneNeurons with OR where the statement has AND
PrunedNeuronsAnyOf(ns) ==
  {id \in DOMAIN ns :
     \/ ns[id].activation < NEURON_PRUNE_LEVEL
     \/ ns[id].myelination < NEURON_PRUNE_LEVEL
     \/ ns[id].access_count < NEURON_PRUNE_ACCESSES}

\* pruneNeurons: the ids of the rows it deletes
PrunedNeurons(ns) ==
  {id \in DOMAIN ns :
     /\ ns[id].activation < NEURON_PRUNE_LEVEL
     /\ ns[id].myelination < NEURON_PRUNE_LEVEL
     /\ ns[id].access_count < NEURON_PRUNE_ACCESSES}

\* a table without the rows of the given keys
Without(table, keys) == [k \in DOMAIN table \ keys |-> table[k]]

\* synapses.source_id and target_id without ON DELETE CASCADE
CascadeSynapsesNone(syn, gone) == syn

\* ON DELETE CASCADE of synapses.source_id and target_id
CascadeSynapses(syn, gone) ==
  Without(syn, {k \in DOMAIN syn : k[1] \in gone \/ k[2] \in gone})

\* access_log.neuron_id without ON DELETE CASCADE
CascadeAccessLogNone(log, gone) == log

\* ON DELETE CASCADE of access_log.neuron_id
CascadeAccessLog(log, gone) ==
  SelectSeq(log, LAMBDA row : row.neuron_id \notin gone)

\* ------------------------------------------------------------------------
\* Query results in SQL order
\* ------------------------------------------------------------------------

RECURSIVE OrderingsDesc(_, _)
\* every enumeration of the set S in non-increasing order of key; SQL leaves
\* the order of rows with equal sort keys open, so there may be several
OrderingsDesc(S, key) ==
  IF S = {} THEN {<<>>}
  ELSE LET top == {x \in S : \A y \in S : key[x] >= key[y]} IN
       UNION {{<<x>> \o rest : rest \in OrderingsDesc(S \ {x}, key)} : x \in top}

\* LIMIT n (n >= 0), and Array.prototype.slice(0, n) for n >= 0
Take(list, n) == SubSeq(list, 1, Min(n, Len(list)))

\* ------------------------------------------------------------------------
\* record
\* ------------------------------------------------------------------------

\* the context list with pop() for shift(): on overflow the newest entry goes
AddContextDropNewest(contexts, query) ==
  IF query # <<>> /\ IndexOf(contexts, query) = 0
  THEN LET pushed == Append(contexts, query) IN
       IF Len(pushed) > MAX_CONTEXTS
       THEN SubSeq(pushed, 1, Len(pushed) - 1)
       ELSE pushed
  ELSE contexts

\* record: if (query && !contexts.includes(query)) { push; shift when > 20 }
AddContext(contexts, query) ==
  IF query # <<>> /\ IndexOf(contexts, query) = 0
  THEN LET pushed == Append(contexts, query) IN
       IF Len(pushed) > MAX_CONTEXTS THEN Tail(pushed) ELSE pushed
  ELSE contexts

\* record: the contexts of the existing row, decoded; a row without contexts
\* text, or no row, gives the empty list
StoredContexts(ns, id) ==
  IF id \in DOMAIN ns /\ ns[id].contexts # <<>>
  THEN JsonParse(ns[id].contexts)
  ELSE [ok |-> TRUE, val |-> <<>>]

\* delta computed from i instead of i + 1
DeltaFromZero(position, length) == (LEARNING_RATE * (position - 1)) \div length

\* delta = LEARNING_RATE * (i + 1) / window.length, i counted from 0
Delta(position, length) == (LEARNING_RATE * position) \div length

RECURSIVE HebbianLoopOneWay(_, _, _, _, _)
\* the loop with the second upsert (recentId -> id) left out
HebbianLoopOneWay(syn, ns, window, i, id) ==
  IF i > Len(window) THEN [synapses |-> syn, raised |-> FALSE]
  ELSE IF window[i] = id THEN HebbianLoopOneWay(syn, ns, window, i + 1, id)
  ELSE LET delta == Delta(i, Len(window))
           recentId == window[i]
       IN IF ~SynapseKeysExist(ns, id, recentId)
          THEN [synapses |-> syn, raised |-> TRUE]
          ELSE HebbianLoopOneWay(
                 UpsertSynapse(syn, id, recentId, delta, delta),
                 ns, window, i + 1, id)

RECURSIVE HebbianLoop(_, _, _, _, _)
\* record's loop over the window from position i on: both synapses between id
\* and each other member are upserted; a failing statement ends the loop
\* with what was written before it
HebbianLoop(syn, ns, window, i, id) ==
  IF i > Len(window) THEN [synapses |-> syn, raised |-> FALSE]
  ELSE IF window[i] = id THEN HebbianLoop(syn, ns, window, i + 1, id)
  ELSE LET delta == Delta(i, Len(window))
           recentId == window[i]
       IN IF ~SynapseKeysExist(ns, id, recentId)
          THEN [synapses |-> syn, raised |-> TRUE]
          ELSE HebbianLoop(
                 UpsertSynapse(UpsertSynapse(syn, id, recentId, delta, delta),
                               recentId, id, delta, delta),
                 ns, window, i + 1, id)

\* the window update without the shift() on overflow
TrackInWindowUnbounded(window, id) ==
  LET idx == IndexOf(window, id)
      removed == IF idx # 0 THEN RemoveAt(window, idx) ELSE window
  IN Append(removed, id)

\* the window update without the splice of the prior occurrence
TrackInWindowKeeping(window, id) ==
  LET pushed == Append(window, id)
  IN IF Len(pushed) > CO_ACCESS_WINDOW_SIZE THEN Tail(pushed) ELSE pushed

\* record: track in window
TrackInWindow(window, id) ==
  LET idx == IndexOf(window, id)
      removed == IF idx # 0 THEN RemoveAt(window, idx) ELSE window
      pushed == Append(removed, id)
  IN IF Len(pushed) > CO_ACCESS_WINDOW_SIZE THEN Tail(pushed) ELSE pushed

\* BrainBoxDB.record(path, type, query); query <<>> is an absent or empty query
Record(path, type, query) ==
  LET id == NeuronId(type, path)
      parsed == StoredContexts(neurons, id)
      contexts == AddContext(parsed.val, query)
      ns == UpsertNeuron(neurons, id, type, path, Scale,
                         IF id \in DOMAIN neurons
                         THEN neurons[id].myelination ELSE 0,
                         now, JsonStringify(contexts))
      log == LogAccess(access_log, logSeq + 1, id, sessionId, query, now,
                       TokenCost(type), accessOrder + 1)
      heb == HebbianLoop(synapses, ns, recentAccesses, 1, id)
      out == [Outcome("record") EXCEPT !.id = id, !.type = type,
                                       !.query = query]
  IN /\ dbOpen' = TRUE
     /\ UNCHANGED <<recalling, hostVars>>
     /\ calls' = [calls EXCEPT !.record = @ + 1]
     /\ UNCHANGED <<sessionId, now>>
     /\ IF ~parsed.ok
        THEN /\ ret' = [out EXCEPT !.raised = TRUE]
             /\ UNCHANGED <<storeVars, recentAccesses, accessOrder>>
        ELSE /\ neurons' = ns
             /\ accessOrder' = accessOrder + 1
             /\ access_log' = log
             /\ logSeq' = logSeq + 1
             /\ synapses' = heb.synapses
             /\ IF heb.raised
                THEN /\ ret' = [out EXCEPT !.raised = TRUE]
                     /\ UNCHANGED <<recentAccesses, sessions>>
                ELSE /\ ret' = out
                     /\ recentAccesses' = TrackInWindow(recentAccesses, id)
                     /\ sessions' = UpdateSession(sessions, sessionId,
                                                  TokenCost(type))

\* ------------------------------------------------------------------------
\* decay, stats, close
\* ------------------------------------------------------------------------

\* decay() counting as pruned_synapses every synapse that it removes
DecayCountingCascade ==
  LET ns == DecayAll(neurons)
      syn == DecaySynapses(synapses)
      weak == PrunedSynapses(syn)
      gone == PrunedNeurons(ns)
      left == CascadeSynapses(Without(syn, weak), gone)
  IN /\ dbOpen' = TRUE
     /\ UNCHANGED <<recalling, hostVars>>
     /\ neurons' = Without(ns, gone)
     /\ synapses' = left
     /\ access_log' = CascadeAccessLog(access_log, gone)
     /\ ret' = [Outcome("decay") EXCEPT
                  !.pruned_synapses = Cardinality(DOMAIN syn \ DOMAIN left),
                  !.pruned_neurons = Cardinality(gone)]
     /\ calls' = [calls EXCEPT !.decay = @ + 1]
     /\ UNCHANGED <<sessions, logSeq, engineVars, now>>

\* decay() evaluating its two prune statements on the values before the
\* decay statements changed them
DecayPruningFirst ==
  LET weak == PrunedSynapses(synapses)
      gone == PrunedNeurons(neurons)
  IN /\ dbOpen' = TRUE
     /\ UNCHANGED <<recalling, hostVars>>
     /\ neurons' = Without(DecayAll(neurons), gone)
     /\ synapses' = CascadeSynapses(Without(DecaySynapses(synapses), weak), gone)
     /\ access_log' = CascadeAccessLog(access_log, gone)
     /\ ret' = [Outcome("decay") EXCEPT
                  !.pruned_synapses = Cardinality(weak),
                  !.pruned_neurons = Cardinality(gone)]
     /\ calls' = [calls EXCEPT !.decay = @ + 1]
     /\ UNCHANGED <<sessions, logSeq, engineVars, now>>

\* BrainBoxDB.decay()
Decay ==
  LET ns == DecayAll(neurons)
      syn == DecaySynapses(synapses)
      weak == PrunedSynapses(syn)
      gone == PrunedNeurons(ns)
  IN /\ dbOpen' = TRUE
     /\ UNCHANGED <<recalling, hostVars>>
     /\ neurons' = Without(ns, gone)
     /\ synapses' = CascadeSynapses(Without(syn, weak), gone)
     /\ access_log' = CascadeAccessLog(access_log, gone)
     /\ ret' = [Outcome("decay") EXCEPT
                  !.pruned_synapses = Cardinality(weak),
                  !.pruned_neurons = Cardinality(gone)]
     /\ calls' = [calls EXCEPT !.decay = @ + 1]
     /\ UNCHANGED <<sessions, logSeq, engineVars, now>>

RECURSIVE SumMyelination(_, _)
SumMyelination(ns, ids) ==
  IF ids = {} THEN 0
  ELSE LET id == CHOOSE x \in ids : TRUE IN
       ns[id].myelination + SumMyelination(ns, ids \ {id})

\* the row of the stats statement; AVG over no rows is NULL
StatsRow(ns, syn, log) ==
  [neuron_count |-> Cardinality(DOMAIN ns),
   synapse_count |-> Cardinality(DOMAIN syn),
   superhighways |->
     Cardinality({id \in DOMAIN ns : ns[id].myelination > Scale \div 2}),
   total_accesses |-> Len(log),
   avg_myelination |->
     IF DOMAIN ns = {} THEN "NULL"
     ELSE SumMyelination(ns, DOMAIN ns) \div Cardinality(DOMAIN ns)]

\* BrainBoxDB.stats()
Stats ==
  /\ dbOpen' = TRUE
  /\ UNCHANGED <<recalling, hostVars>>
  /\ ret' = [Outcome("stats") EXCEPT
               !.stats = StatsRow(neurons, synapses, access_log)]
  /\ UNCHANGED <<storeVars, engineVars, now, calls>>

\* close() disposing of the engine's memory with the handle
CloseForgetting ==
  /\ dbOpen' = FALSE
  /\ UNCHANGED <<recalling, hostVars>>
  /\ recentAccesses' = <<>>
  /\ accessOrder' = 0
  /\ ret' = Outcome("close")
  /\ UNCHANGED <<storeVars, sessionId, now, calls>>

\* BrainBoxDB.close()
Close ==
  /\ dbOpen' = FALSE
  /\ UNCHANGED <<recalling, hostVars>>
  /\ ret' = Outcome("close")
  /\ UNCHANGED <<storeVars, engineVars, now, calls>>

\* ------------------------------------------------------------------------
\* recall
\* ------------------------------------------------------------------------

\* searchByContext.all({ pattern, limit: 10 })
SEARCH_LIMIT == 10

\* getSynapses.all(id).slice(0, 10)
SPREAD_FANOUT == 10

\* syn.weight < 0.3
SPREAD_WEIGHT_GATE == (3 * Scale) \div 10

\* Math.min(spreadConf, 0.99)
SPREAD_CAP == (99 * Scale) \div 100

\* MYELIN_GATE = 0.15
MYELIN_GATE == (15 * Scale) \div 100

\* query.toLowerCase().split(/\s+/).filter(w => w.length > 2)
Keywords(query) ==
  SelectSeq(SplitWs(ToLowerCase(query)), LAMBDA w : Len(w) > 2)

\* searchByContext given its keyword without the leading %
SearchByContextPrefix(ns, pattern, limit) ==
  LET S == {id \in DOMAIN ns : Like(Tail(pattern), ns[id].contexts)}
      key == [id \in S |-> ns[id].myelination]
  IN {Take(o, limit) : o \in OrderingsDesc(S, key)}

\* searchByContext: the ids of the rows whose contexts text is LIKE the
\* pattern, by myelination descending, the first `limit` of them
SearchByContext(ns, pattern, limit) ==
  LET S == {id \in DOMAIN ns : Like(pattern, ns[id].contexts)}
      key == [id \in S |-> ns[id].myelination]
  IN {Take(o, limit) : o \in OrderingsDesc(S, key)}

\* the loop of phase 1 pushing every match, found before or not
PushAll(directMatches, matches) == directMatches \o matches

RECURSIVE PushNew(_, _)
\* if (!directMatches.find(d => d.id === m.id)) directMatches.push(m)
PushNew(directMatches, matches) ==
  IF matches = <<>> THEN directMatches
  ELSE PushNew(IF IndexOf(directMatches, Head(matches)) = 0
               THEN Append(directMatches, Head(matches))
               ELSE directMatches,
               Tail(matches))

RECURSIVE DirectMatches(_, _, _)
\* recall phase 1, the loop over the keywords from position i on: the possible
\* directMatches; found[i] holds the possible results of searchByContext
\* for keyword i
DirectMatches(found, i, directMatches) ==
  IF i > Len(found) THEN {directMatches}
  ELSE UNION {DirectMatches(found, i + 1, PushNew(directMatches, m)) :
                m \in found[i]}

\* keywords.filter(k => text.includes(k)).length
MatchCount(keywords, text) ==
  Cardinality({i \in 1..Len(keywords) : Includes(text, keywords[i])})

\* (keywords.length > 0 ? count / keywords.length : 0)
MatchShare(count, length) ==
  IF length > 0 THEN (Scale * count) \div length ELSE 0

\* age / (168 * 3_600_000), for an age below a week (Scale / WEEK_MS = 5 / 3024)
AgeShare(age) == (5 * (age \div 3024)) + ((5 * (age % 3024)) \div 3024)

\* Math.max(0, 1 - ageMs / (168 * 3_600_000))
Recency(last_accessed, t) ==
  IF t - last_accessed >= WEEK_MS THEN 0
  ELSE Scale - AgeShare(t - last_accessed)

\* BrainBoxDB.computeConfidence(neuron, query) at instant t;
\* ok = FALSE when JSON.parse of the row's contexts throws
ComputeConfidence(neuron, query, t) ==
  LET parsed == JsonParse(neuron.contexts)
      keywords == Keywords(query)
      contextStr == ToLowerCase(Join(parsed.val, <<" ">>))
      matchCount == MatchCount(keywords, contextStr)
      pathMatches == MatchCount(keywords, ToLowerCase(neuron.path))
      score == MulS(MatchShare(matchCount, Len(keywords)), (4 * Scale) \div 10)
                 + MulS(neuron.myelination, (3 * Scale) \div 10)
                 + MulS(Recency(neuron.last_accessed, t), (2 * Scale) \div 10)
                 + MulS(MatchShare(pathMatches, Len(keywords)), Scale \div 10)
  IN [ok |-> parsed.ok, val |-> IF parsed.ok THEN Min(score, Scale) ELSE 0]

\* an entry of recall's results; of the neuron it keeps what is read later
Result(ns, id, confidence, path) ==
  [id |-> id, type |-> ns[id].type, myelination |-> ns[id].myelination,
   confidence |-> confidence, activation_path |-> path]

\* parseNeuron(n) throws when the row's contexts text is not JSON
ParseNeuronFails(ns, id) == ~JsonParse(ns[id].contexts).ok

RECURSIVE DirectPhase(_, _, _, _, _, _)
\* recall phase 1, the loop over directMatches from position i on; st holds
\* results, activated and raised; confidence[id] is
\* computeConfidence(neuron, query) of the row id
DirectPhase(ns, directMatches, i, confidence, type, st) ==
  IF i > Len(directMatches) \/ st.raised THEN st
  ELSE LET id == directMatches[i]
           conf == confidence[id]
       IN IF ns[id].type # type
          THEN DirectPhase(ns, directMatches, i + 1, confidence, type, st)
          ELSE IF ~conf.ok
          THEN [st EXCEPT !.raised = TRUE]
          ELSE IF conf.val < CONFIDENCE_GATE
          THEN DirectPhase(ns, directMatches, i + 1, confidence, type, st)
          ELSE DirectPhase(ns, directMatches, i + 1, confidence, type,
                 [st EXCEPT !.activated = @ \cup {id},
                            !.results = Append(@, Result(ns, id, conf.val,
                                                         "direct"))])

\* getSynapses.all(source).slice(0, 10): keys by weight descending
GetSynapses(syn, source) ==
  LET S == {k \in DOMAIN syn : k[1] = source}
      key == [k \in S |-> syn[k].weight]
  IN {Take(o, SPREAD_FANOUT) : o \in OrderingsDesc(S, key)}

RECURSIVE SpreadSeed(_, _, _, _, _, _, _)
\* recall phase 2, the loop over one seed's synapses from position i on
SpreadSeed(ns, syn, seed, outgoing, i, type, st) ==
  IF i > Len(outgoing) \/ st.raised THEN st
  ELSE LET k == outgoing[i]
           target == k[2]
           spreadConf ==
             MulS(MulS(seed.confidence, syn[k].weight),
                  Scale + ns[target].myelination)
       IN IF syn[k].weight < SPREAD_WEIGHT_GATE \/ target \in st.activated
          THEN SpreadSeed(ns, syn, seed, outgoing, i + 1, type, st)
          ELSE IF target \notin DOMAIN ns \/ ns[target].type # type
          THEN SpreadSeed(ns, syn, seed, outgoing, i + 1, type, st)
          ELSE IF spreadConf < CONFIDENCE_GATE
          THEN SpreadSeed(ns, syn, seed, outgoing, i + 1, type, st)
          ELSE IF ParseNeuronFails(ns, target)
          THEN [st EXCEPT !.raised = TRUE]
          ELSE SpreadSeed(ns, syn, seed, outgoing, i + 1, type,
                 [st EXCEPT !.activated = @ \cup {target},
                            !.results =
                              Append(@, Result(ns, target,
                                               Min(spreadConf, SPREAD_CAP),
                                               "spread"))])

RECURSIVE SpreadPhaseGrowing(_, _, _, _, _, _)
\* phase 2 looping over `results` itself, which grows as it spreads
SpreadPhaseGrowing(ns, syn, frontier, i, type, st) ==
  IF i > Len(st.results) \/ st.raised THEN {st}
  ELSE UNION {SpreadPhaseGrowing(ns, syn, frontier, i + 1, type,
                SpreadSeed(ns, syn, st.results[i], outgoing, 1, type, st)) :
                outgoing \in GetSynapses(syn, st.results[i].id)}

RECURSIVE SpreadPhaseBackwards(_, _, _, _, _, _)
\* phase 2 looping over the frontier from its last element to its first
SpreadPhaseBackwards(ns, syn, frontier, i, type, st) ==
  IF i > Len(frontier) \/ st.raised THEN {st}
  ELSE UNION {SpreadPhaseBackwards(ns, syn, frontier, i + 1, type,
                SpreadSeed(ns, syn, frontier[Len(frontier) + 1 - i],
                           outgoing, 1, type, st)) :
                outgoing \in GetSynapses(syn, frontier[Len(frontier) + 1 - i].id)}

RECURSIVE SpreadPhase(_, _, _, _, _, _)
\* recall phase 2, the loop over the frontier from position i on: the
\* possible states after it
SpreadPhase(ns, syn, frontier, i, type, st) ==
  IF i > Len(frontier) \/ st.raised THEN {st}
  ELSE UNION {SpreadPhase(ns, syn, frontier, i + 1, type,
                SpreadSeed(ns, syn, frontier[i], outgoing, 1, type, st)) :
                outgoing \in GetSynapses(syn, frontier[i].id)}

\* topByMyelination without its WHERE on type
TopByMyelinationAnyType(ns, type, limit) ==
  LET key == [id \in DOMAIN ns |-> ns[id].myelination]
  IN {Take(o, limit) : o \in OrderingsDesc(DOMAIN ns, key)}

\* topByMyelination.all({ type, limit })
TopByMyelination(ns, type, limit) ==
  LET S == {id \in DOMAIN ns : ns[id].type = type}
      key == [id \in S |-> ns[id].myelination]
  IN {Take(o, limit) : o \in OrderingsDesc(S, key)}

RECURSIVE MyelinatedLoop(_, _, _, _)
\* recall phase 3, the loop over top from position i on
MyelinatedLoop(ns, top, i, st) ==
  IF i > Len(top) \/ st.raised THEN st
  ELSE LET id == top[i]
           conf == MulS(ns[id].myelination, Scale \div 2)
       IN IF id \in st.activated \/ conf < MYELIN_GATE
          THEN MyelinatedLoop(ns, top, i + 1, st)
          ELSE IF ParseNeuronFails(ns, id)
          THEN [st EXCEPT !.raised = TRUE]
          ELSE MyelinatedLoop(ns, top, i + 1,
                 [st EXCEPT !.results =
                    Append(@, Result(ns, id, conf, "myelinated"))])

\* recall phase 3: the possible states after it
MyelinatedPhase(ns, type, limit, st) ==
  IF st.raised \/ ~(Len(st.results) < limit) THEN {st}
  ELSE {MyelinatedLoop(ns, top, 1, st) :
          top \in TopByMyelination(ns, type, limit - Len(st.results))}

RECURSIVE InsertByConfidence(_, _)
\* r placed after every entry of the sorted list whose confidence is not lower
InsertByConfidence(sorted, r) ==
  IF sorted = <<>> THEN <<r>>
  ELSE IF Head(sorted).confidence >= r.confidence
       THEN <<Head(sorted)>> \o InsertByConfidence(Tail(sorted), r)
       ELSE <<r>> \o sorted

\* recall without its sort
Unsorted(results) == results

RECURSIVE SortByConfidence(_)
\* results.sort((a, b) => b.confidence - a.confidence), a stable sort
SortByConfidence(results) ==
  IF results = <<>> THEN <<>>
  ELSE InsertByConfidence(
         SortByConfidence(SubSeq(results, 1, Len(results) - 1)),
         results[Len(results)])

\* Array.prototype.slice(0, n): a negative n counts from the end
Slice(list, n) ==
  IF n >= 0 THEN Take(list, n) ELSE Take(list, Max(Len(list) + n, 0))

\* the possible outcomes of recall(query, type, limit) at instant t
RecallOutcomes(ns, syn, query, type, limit, t) ==
  LET start == [results |-> <<>>, activated |-> {}, raised |-> FALSE]
      confidence ==
        [id \in DOMAIN ns |-> ComputeConfidence(ns[id], query, t)]
      keywords == Keywords(query)
      found ==
        [i \in 1..Len(keywords) |->
           SearchByContext(ns, <<"%">> \o keywords[i] \o <<"%">>,
                           SEARCH_LIMIT)]
      afterDirect ==
        {DirectPhase(ns, dm, 1, confidence, type, start) :
           dm \in DirectMatches(found, 1, <<>>)}
      afterSpread ==
        UNION {SpreadPhase(ns, syn, st.results, 1, type, st) :
                 st \in afterDirect}
      afterMyelinated ==
        UNION {MyelinatedPhase(ns, type, limit, st) : st \in afterSpread}
  IN {[raised |-> st.raised,
       produced |-> IF st.raised THEN <<>> ELSE st.results,
       results |-> IF st.raised THEN <<>>
                   ELSE Slice(SortByConfidence(st.results), limit)] :
        st \in afterMyelinated}

\* recall counting itself as an access of every neuron it returns
RecallTouching(query, type, limit) ==
  \E out \in RecallOutcomes(neurons, synapses, query, type, limit, now) :
    LET hit == {out.results[i].id : i \in 1..Len(out.results)} IN
    /\ dbOpen' = TRUE
    /\ UNCHANGED <<recalling, hostVars>>
    /\ ret' = [Outcome("recall") EXCEPT !.query = query, !.type = type,
                                        !.limit = limit,
                                        !.raised = out.raised,
                                        !.produced = out.produced,
                                        !.results = out.results]
    /\ neurons' = [id \in DOMAIN neurons |->
                     IF id \in hit
                     THEN [neurons[id] EXCEPT !.access_count = @ + 1]
                     ELSE neurons[id]]
    /\ UNCHANGED <<synapses, access_log, sessions, logSeq, engineVars, now,
                   calls>>

\* BrainBoxDB.recall(query, type, limit)
Recall(query, type, limit) ==
  \E out \in RecallOutcomes(neurons, synapses, query, type, limit, now) :
    /\ dbOpen' = TRUE
    /\ UNCHANGED <<recalling, hostVars>>
    /\ ret' = [Outcome("recall") EXCEPT !.query = query, !.type = type,
                                        !.limit = limit,
                                        !.raised = out.raised,
                                        !.produced = out.produced,
                                        !.results = out.results]
    /\ UNCHANGED <<storeVars, engineVars, now, calls>>

\* ------------------------------------------------------------------------
\* recall, query by query
\* ------------------------------------------------------------------------

\* no recall is running
NoRecall ==
  [pc |-> "idle", query |-> <<>>, type |-> "", limit |-> 0, kw |-> 0,
   rows |-> EmptyTable, directMatches |-> <<>>, results |-> <<>>,
   activated |-> {}, frontier |-> <<>>, seed |-> 0, outgoing |-> <<>>,
   at |-> 0, raised |-> FALSE]

RECURSIVE SkipNoLookup(_, _, _)
\* the loop over a seed's synapses from position i on, up to the first one
\* that is not skipped before getNeuron
SkipNoLookup(outgoing, i, activated) ==
  IF i > Len(outgoing) THEN i
  ELSE IF outgoing[i].weight < SPREAD_WEIGHT_GATE
          \/ outgoing[i].target \in activated
       THEN SkipNoLookup(outgoing, i + 1, activated)
       ELSE i

RECURSIVE Settle(_)
\* recall run on from the locals r, which a query has just filled, up to its
\* next query (pc search, synapses, target or top) or to its return (pc done)
Settle(r) ==
  IF r.raised THEN [r EXCEPT !.pc = "done"]
  ELSE IF r.pc = "search"
  THEN IF r.kw <= Len(Keywords(r.query)) THEN r
       ELSE LET confidence ==
                  [id \in DOMAIN r.rows |->
                     ComputeConfidence(r.rows[id], r.query, now)]
                st == DirectPhase(r.rows, r.directMatches, 1, confidence,
                                  r.type,
                                  [results |-> <<>>, activated |-> {},
                                   raised |-> FALSE])
            IN Settle([r EXCEPT !.pc = "synapses",
                                !.results = st.results,
                                !.activated = st.activated,
                                !.raised = st.raised,
                                !.frontier = st.results,
                                !.seed = 1])
  ELSE IF r.pc = "synapses"
  THEN IF r.seed <= Len(r.frontier) THEN r
       ELSE IF Len(r.results) < r.limit THEN [r EXCEPT !.pc = "top"]
       ELSE [r EXCEPT !.pc = "done"]
  ELSE IF r.pc = "target"
  THEN LET i == SkipNoLookup(r.outgoing, r.at, r.activated) IN
       IF i <= Len(r.outgoing) THEN [r EXCEPT !.at = i]
       ELSE Settle([r EXCEPT !.pc = "synapses", !.seed = @ + 1])
  ELSE r

\* what recall returns from its locals
Returns(r) ==
  [Outcome("recall") EXCEPT
     !.query = r.query, !.type = r.type, !.limit = r.limit,
     !.raised = r.raised,
     !.produced = IF r.raised THEN <<>> ELSE r.results,
     !.results = IF r.raised THEN <<>>
                 ELSE Slice(SortByConfidence(r.results), r.limit)]

\* a step of the running recall that leaves the locals r
RecallStep(r) ==
  /\ recalling' = r
  /\ ret' = IF r.pc = "done" THEN Returns(r) ELSE ret
  /\ UNCHANGED <<storeVars, engineVars, dbOpen, now, calls, hostVars>>

\* recall(query, type, limit) up to its first query
BeginRecall(query, type, limit) ==
  /\ recalling.pc = "idle"
  /\ RecallStep(Settle([NoRecall EXCEPT !.pc = "search", !.query = query,
                                        !.type = type, !.limit = limit,
                                        !.kw = 1]))

\* searchByContext for the next keyword, and what follows it
StepSearch ==
  /\ recalling.pc = "search"
  /\ \E matches \in
          SearchByContext(neurons,
                          <<"%">> \o Keywords(recalling.query)[recalling.kw]
                            \o <<"%">>,
                          SEARCH_LIMIT) :
       RecallStep(Settle(
         [recalling EXCEPT
            !.kw = @ + 1,
            !.directMatches = PushNew(@, matches),
            !.rows = @ @@ [id \in {matches[i] : i \in 1..Len(matches)} |->
                             neurons[id]]]))

\* getSynapses for the next seed, and what follows it
StepSynapses ==
  /\ recalling.pc = "synapses"
  /\ \E keys \in GetSynapses(synapses, recalling.frontier[recalling.seed].id) :
       RecallStep(Settle(
         [recalling EXCEPT
            !.pc = "target",
            !.at = 1,
            !.outgoing = [i \in 1..Len(keys) |->
                            [target |-> keys[i][2],
                             weight |-> synapses[keys[i]].weight]]]))

\* the target lookup without the test of !target: reading target.type of
\* undefined throws
LookupUnguarded(ns, r) ==
  LET syn == r.outgoing[r.at]
      seed == r.frontier[r.seed]
      next == [r EXCEPT !.at = @ + 1]
  IN IF syn.target \notin DOMAIN ns THEN [r EXCEPT !.raised = TRUE]
     ELSE IF ns[syn.target].type # r.type THEN next
     ELSE LET spreadConf == MulS(MulS(seed.confidence, syn.weight),
                                 Scale + ns[syn.target].myelination)
          IN IF spreadConf < CONFIDENCE_GATE THEN next
             ELSE IF ParseNeuronFails(ns, syn.target)
             THEN [r EXCEPT !.raised = TRUE]
             ELSE [next EXCEPT
                     !.activated = @ \cup {syn.target},
                     !.results = Append(@, Result(ns, syn.target,
                                                  Min(spreadConf, SPREAD_CAP),
                                                  "spread"))]

\* getNeuron.get(syn.target_id) and the rest of the loop body, on the
\* synapse row read before
Lookup(ns, r) ==
  LET syn == r.outgoing[r.at]
      seed == r.frontier[r.seed]
      next == [r EXCEPT !.at = @ + 1]
  IN IF syn.target \notin DOMAIN ns \/ ns[syn.target].type # r.type
     THEN next
     ELSE LET spreadConf == MulS(MulS(seed.confidence, syn.weight),
                                 Scale + ns[syn.target].myelination)
          IN IF spreadConf < CONFIDENCE_GATE THEN next
             ELSE IF ParseNeuronFails(ns, syn.target)
             THEN [r EXCEPT !.raised = TRUE]
             ELSE [next EXCEPT
                     !.activated = @ \cup {syn.target},
                     !.results = Append(@, Result(ns, syn.target,
                                                  Min(spreadConf, SPREAD_CAP),
                                                  "spread"))]

\* getNeuron for the next target, and what follows it
StepTarget ==
  /\ recalling.pc = "target"
  /\ RecallStep(Settle(Lookup(neurons, recalling)))

\* topByMyelination, the sort and the return
StepTop ==
  /\ recalling.pc = "top"
  /\ \E st \in MyelinatedPhase(neurons, recalling.type, recalling.limit,
                               [results |-> recalling.results,
                                activated |-> recalling.activated,
                                raised |-> FALSE]) :
       RecallStep([recalling EXCEPT !.pc = "done",
                                    !.results = st.results,
                                    !.raised = st.raised])

\* ------------------------------------------------------------------------
\* The constructor
\* ------------------------------------------------------------------------

\* WHERE timestamp > datetime('now', '-1 hour'): both sides are text
InSeedRange(row, t) ==
  TextGreater(ToISOString(row.timestamp), DatetimeMinusOneHour(t))

\* ORDER BY timestamp ASC, access_order ASC: a sorts strictly before b
SeedBefore(a, b) ==
  \/ TextGreater(ToISOString(b.timestamp), ToISOString(a.timestamp))
  \/ a.timestamp = b.timestamp /\ a.access_order < b.access_order

\* the seed query: the possible sequences of neuron_id it returns
SeedRows(log, t) ==
  LET S == {i \in 1..Len(log) : InSeedRange(log[i], t)}
      \* the rank of each row, tabulated once
      key == EmptyTable @@
               [i \in S |->
                  0 - Cardinality({j \in S : SeedBefore(log[j], log[i])})]
  IN {[n \in 1..Len(o) |-> log[o[n]].neuron_id] : o \in OrderingsDesc(S, key)}

RECURSIVE SeedLoop(_, _)
\* for (const row of recent) { splice a prior occurrence; push }
SeedLoop(ids, window) ==
  IF ids = <<>> THEN window
  ELSE LET idx == IndexOf(window, Head(ids)) IN
       SeedLoop(Tail(ids),
                Append(IF idx # 0 THEN RemoveAt(window, idx) ELSE window,
                       Head(ids)))

\* the seed loop followed by slice(0, CO_ACCESS_WINDOW_SIZE): the oldest ids
SeedWindowOldest(ids) ==
  LET window == SeedLoop(ids, <<>>) IN
  SubSeq(window, 1, Min(Len(window), CO_ACCESS_WINDOW_SIZE))

\* recentAccesses.slice(-CO_ACCESS_WINDOW_SIZE) when longer than the window
SeedWindow(ids) ==
  LET window == SeedLoop(ids, <<>>) IN
  IF Len(window) > CO_ACCESS_WINDOW_SIZE
  THEN SubSeq(window, Len(window) - CO_ACCESS_WINDOW_SIZE + 1, Len(window))
  ELSE window

\* new BrainBoxDB(dbPath) on the store as it is: a new engine instance
\* replaces the one before it (sessionId is `nv-${Date.now()}`)
Open ==
  \E ids \in SeedRows(access_log, now) :
    /\ dbOpen' = TRUE
    /\ UNCHANGED <<recalling, hostVars>>
    /\ sessionId' = now
    /\ sessions' = CreateSession(sessions, now, now)
    /\ recentAccesses' = SeedWindow(ids)
    /\ accessOrder' = 0
    /\ ret' = Outcome("open")
    /\ calls' = [calls EXCEPT !.open = @ + 1]
    /\ UNCHANGED <<neurons, synapses, access_log, logSeq, now>>

\* time passes
Tick(ms) ==
  /\ now' = now + ms
  /\ ret' = Outcome("tick")
  /\ UNCHANGED <<recalling, hostVars>>
  /\ calls' = [calls EXCEPT !.tick = @ + 1]
  /\ UNCHANGED <<storeVars, engineVars, dbOpen>>

\* ------------------------------------------------------------------------
\* lib/vaultgraph.js
\* ------------------------------------------------------------------------

\* JavaScript's null
Null == [t |-> "null", s |-> <<>>]

\* a JavaScript string
Str(s) == [t |-> "string", s |-> s]

MAX_OUTPUT_BYTES == 64 * 1024

\* the shortest trimmed output that recallVaultGraph passes on
MIN_OUTPUT == 10

\* white space in the sense of String.prototype.trim
IsWhite(c) == c \in {" ", "\n", "\t"}

RECURSIVE TrimEnd(_)
\* String.prototype.trimEnd
TrimEnd(s) ==
  IF s # <<>> /\ IsWhite(s[Len(s)]) THEN TrimEnd(SubSeq(s, 1, Len(s) - 1))
  ELSE s

RECURSIVE TrimStart(_)
\* String.prototype.trimStart
TrimStart(s) ==
  IF s # <<>> /\ IsWhite(Head(s)) THEN TrimStart(Tail(s)) ELSE s

\* String.prototype.trim
Trim(s) == TrimEnd(TrimStart(s))

\* no call of recallVaultGraph made yet
NoVaultGraph ==
  [pc |-> "idle",          \* idle, returned (without a promise of its own), or called
   promise |-> "none",     \* the state of the promise the call returned
   value |-> Null,         \* the value the promise is fulfilled with
   resolves |-> 0,         \* how many times resolve() was called
   first |-> "none",       \* the event whose handler called resolve() first
   code |-> 0,             \* the exit code of the close event, -1 for null
   resolved |-> FALSE,
   stdout |-> <<>>,
   outputBytes |-> 0,
   timer |-> "none",       \* none, armed, fired or cleared
   proc |-> "none",        \* none, running or closed
   killed |-> FALSE,       \* proc.kill('SIGTERM') was called
   errors |-> 0,           \* how many error events the child emitted
   chunks |-> 0,           \* how many data events its stdout emitted
   errorLogged |-> FALSE]  \* _errorLogged

\* done(result) without its test of `resolved`
DoneAgain(v, result, event) ==
  [v EXCEPT !.resolved = TRUE,
            !.resolves = @ + 1,
            !.promise = "fulfilled",
            !.value = IF v.promise = "fulfilled" THEN @ ELSE result,
            !.first = IF v.promise = "fulfilled" THEN @ ELSE event]

\* done(result), called by the handler of the given event
Done(v, result, event) ==
  IF v.resolved THEN v
  ELSE [v EXCEPT !.resolved = TRUE,
                 !.resolves = @ + 1,
                 !.promise = "fulfilled",
                 !.value = result,
                 !.first = event]

\* clearTimeout(timer)
ClearTimeout(v) ==
  [v EXCEPT !.timer = IF @ = "armed" THEN "cleared" ELSE @]

\* recallVaultGraph(prompt, { vaultPath, budget }) up to its return: the
\* promise is made, the timer set, the child spawned and the prompt written
VgCall(prompt, vaultPath) ==
  /\ vg.pc = "idle"
  /\ vg' = IF prompt = <<>> \/ vaultPath = <<>>
           THEN [vg EXCEPT !.pc = "returned", !.promise = "fulfilled",
                           !.value = Null]
           ELSE [vg EXCEPT !.pc = "called", !.promise = "pending",
                           !.timer = "armed", !.proc = "running"]
  /\ UNCHANGED <<brainVars, bb, caps, combined>>

\* proc.stdout.on('data', chunk)
VgData(chunk) ==
  /\ vg.proc = "running"
  /\ LET bytes == vg.outputBytes + Len(chunk) IN
     vg' = [vg EXCEPT !.chunks = @ + 1,
                      !.outputBytes = bytes,
                      !.stdout = IF bytes <= MAX_OUTPUT_BYTES
                                 THEN @ \o chunk ELSE @]
  /\ UNCHANGED <<brainVars, bb, caps, combined>>

\* the timer's callback, TIMEOUT_MS after the call
VgTimeout ==
  /\ vg.timer = "armed"
  /\ vg' = Done([vg EXCEPT !.timer = "fired", !.killed = TRUE], Null, "timeout")
  /\ UNCHANGED <<brainVars, bb, caps, combined>>

\* the error handler clearing the timer and leaving the promise alone
VgErrorSilent ==
  /\ vg.proc = "running"
  /\ vg' = ClearTimeout([vg EXCEPT !.errors = @ + 1, !.errorLogged = TRUE])
  /\ UNCHANGED <<brainVars, bb, caps, combined>>

\* proc.on('error', err): the child could not be spawned or killed
VgError ==
  /\ vg.proc = "running"
  /\ vg' = Done(ClearTimeout([vg EXCEPT !.errors = @ + 1,
                                        !.errorLogged = TRUE]),
                Null, "error")
  /\ UNCHANGED <<brainVars, bb, caps, combined>>

\* proc.on('close', code): the child ended and its streams are closed;
\* code -1 stands for null, the child ended by a signal
VgClose(code) ==
  /\ vg.proc = "running"
  /\ LET v == ClearTimeout([vg EXCEPT !.proc = "closed", !.code = code])
         output == Trim(vg.stdout)
     IN vg' = IF code # 0
              THEN Done([v EXCEPT !.errorLogged = TRUE], Null, "close")
              ELSE IF output = <<>> \/ Len(output) < MIN_OUTPUT
              THEN Done(v, Null, "close")
              ELSE Done(v, Str(output), "close")
  /\ UNCHANGED <<brainVars, bb, caps, combined>>

\* ------------------------------------------------------------------------
\* lib/brainbox.js
\* ------------------------------------------------------------------------

\* a promise rejected, where a value is expected
Rejected == [t |-> "rejected", s |-> <<>>]

\* the module as loaded: nothing imported, no call made
NoBrainBox ==
  [performRecall |-> FALSE,     \* _performRecall is the function, not null
   importAttempted |-> FALSE,   \* _importAttempted
   errorLogged |-> FALSE,       \* _errorLogged
   calls |-> <<>>]              \* the recallBrainBox calls, in call order:
                                \* where each is (pc), what its
                                \* loadPerformRecall returned (got), and
                                \* what it returned (value)

\* loadPerformRecall() up to its first await or its return, in the call c
\* of recallBrainBox: what becomes of the module and of the call
LoadPerformRecall(b, c) ==
  IF b.importAttempted
  THEN [b EXCEPT !.calls[c].pc = "loaded", !.calls[c].got = IF b.performRecall THEN "function" ELSE "null"]
  ELSE [b EXCEPT !.importAttempted = TRUE, !.calls[c].pc = "package"]

\* recallBrainBox(prompt, opts) up to its first await or its return
BbCall(prompt) ==
  LET c == Len(bb.calls) + 1
      b == [bb EXCEPT !.calls = Append(@, [pc |-> "called", got |-> "none",
                                           value |-> Null])]
  IN /\ bb' = IF prompt = <<>> THEN [b EXCEPT !.calls[c].pc = "done"]
              ELSE LoadPerformRecall(b, c)
     /\ UNCHANGED <<brainVars, vg, caps, combined>>

\* import('brainbox/dist/adapter.js') settles in the call c: the module has
\* a function performRecall, or has none, or the import is rejected
BbPackage(c, outcome) ==
  /\ c \in 1..Len(bb.calls)
  /\ bb.calls[c].pc = "package"
  /\ bb' = IF outcome = "function"
           THEN [bb EXCEPT !.performRecall = TRUE,
                           !.calls[c].pc = "loaded", !.calls[c].got = "function"]
           ELSE [bb EXCEPT !.calls[c].pc = "dev"]
  /\ UNCHANGED <<brainVars, vg, caps, combined>>

\* import(devPath) settles in the call c
BbDev(c, outcome) ==
  /\ c \in 1..Len(bb.calls)
  /\ bb.calls[c].pc = "dev"
  /\ bb' = IF outcome = "function"
           THEN [bb EXCEPT !.performRecall = TRUE,
                           !.calls[c].pc = "loaded", !.calls[c].got = "function"]
           ELSE [bb EXCEPT !.calls[c].pc = "loaded", !.calls[c].got = "null"]
  /\ UNCHANGED <<brainVars, vg, caps, combined>>

\* recallBrainBox after `await loadPerformRecall()`, up to its return or to
\* its await of performRecall(prompt, ...)
BbLoaded(c) ==
  /\ c \in 1..Len(bb.calls)
  /\ bb.calls[c].pc = "loaded"
  /\ bb' = IF bb.calls[c].got = "null"
           THEN [bb EXCEPT !.errorLogged = TRUE, !.calls[c].pc = "done"]
           ELSE [bb EXCEPT !.calls[c].pc = "recall"]
  /\ UNCHANGED <<brainVars, vg, caps, combined>>

\* performRecall(prompt, ...) settles in the call c: with a string, with
\* null, or rejected
BbRecalled(c, outcome) ==
  /\ c \in 1..Len(bb.calls)
  /\ bb.calls[c].pc = "recall"
  /\ bb' = IF outcome = Rejected
           THEN [bb EXCEPT !.errorLogged = TRUE, !.calls[c].pc = "done"]
           ELSE [bb EXCEPT !.calls[c].pc = "done", !.calls[c].value = outcome]
  /\ UNCHANGED <<brainVars, vg, caps, combined>>

\* ------------------------------------------------------------------------
\* lib/utils.js
\* ------------------------------------------------------------------------

\* the module as loaded: nothing cached, no call made
NoCapabilities ==
  [capabilities |-> Null,   \* _capabilities: null, or the object cached
   calls |-> <<>>,          \* the checkCapabilities calls, in call order:
                            \* where each is (pc), its local caps, and
                            \* what it returned (value)
   which |-> 0,             \* how many `which vaultgraph` were started
   imports |-> 0]           \* how many imports of the adapter were started

\* { vaultgraph, brainbox }
Caps(vaultgraph, brainbox) ==
  [t |-> "object", vaultgraph |-> vaultgraph, brainbox |-> brainbox]

\* checkCapabilities() up to its first await or its return
CapCall ==
  LET c == Len(caps.calls) + 1 IN
  /\ caps' = IF caps.capabilities # Null
             THEN [caps EXCEPT !.calls = Append(@, [pc |-> "done",
                                 caps |-> caps.capabilities,
                                 value |-> caps.capabilities])]
             ELSE [caps EXCEPT !.calls = Append(@, [pc |-> "which",
                                 caps |-> Caps(FALSE, FALSE),
                                 value |-> Null]),
                               !.which = @ + 1]
  /\ UNCHANGED <<brainVars, vg, bb, combined>>

\* execFileAsync('which', ['vaultgraph']) settles in the call c, found or
\* not; the call goes on to the import
CapWhich(c, found) ==
  /\ c \in 1..Len(caps.calls)
  /\ caps.calls[c].pc = "which"
  /\ caps' = [caps EXCEPT !.calls[c].pc = "import",
                          !.calls[c].caps.vaultgraph = found,
                          !.imports = @ + 1]
  /\ UNCHANGED <<brainVars, vg, bb, combined>>

\* import('brainbox/dist/adapter.js') settles in the call c; the call
\* caches its caps and returns them
CapImport(c, outcome) ==
  /\ c \in 1..Len(caps.calls)
  /\ caps.calls[c].pc = "import"
  /\ LET mine == [caps.calls[c].caps EXCEPT !.brainbox = (outcome = "function")] IN
     caps' = [caps EXCEPT !.capabilities = mine,
                          !.calls[c] = [pc |-> "done", caps |-> mine,
                                        value |-> mine]]
  /\ UNCHANGED <<brainVars, vg, bb, combined>>

\* the characters /[\x00-\x1f\x7f]/ matches
IsControl(c) == c \in {"\n", "\t"}

DISPLAY_LIMIT == 2000

\* sanitizeForDisplay(str), str a JavaScript value
SanitizeForDisplay(v) ==
  IF v.t # "string" THEN <<>>
  ELSE Take(SelectSeq(v.s, LAMBDA ch : ~IsControl(ch)), DISPLAY_LIMIT)

\* '[neurovault] Unified memory context for this session:'
HEADER ==
  <<"[", "n", "e", "u", "r", "o", "v", "a", "u", "l", "t", "]", " ",
    "U", "n", "i", "f", "i", "e", "d", " ", "m", "e", "m", "o", "r", "y", " ",
    "c", "o", "n", "t", "e", "x", "t", " ", "f", "o", "r", " ",
    "t", "h", "i", "s", " ", "s", "e", "s", "s", "i", "o", "n", ":">>

\* a PromiseSettledResult, or the argument left out
Fulfilled(value) == [status |-> "fulfilled", value |-> value]

Failed == [status |-> "rejected", value |-> Null]

Missing == [status |-> "missing", value |-> Null]

\* a JavaScript value, null or a string, in a condition
Truthy(v) == v.t = "string" /\ v.s # <<>>

\* combineResults with BrainBox's part pushed before VaultGraph's
CombineResultsSwapped(vgResult, bbResult) ==
  LET vgText == IF vgResult.status = "fulfilled" THEN vgResult.value ELSE Null
      bbText == IF bbResult.status = "fulfilled" THEN bbResult.value ELSE Null
      parts == <<HEADER, <<>>>>
               \o (IF Truthy(bbText) THEN <<SanitizeForDisplay(bbText), <<>>>> ELSE <<>>)
               \o (IF Truthy(vgText) THEN <<SanitizeForDisplay(vgText), <<>>>> ELSE <<>>)
  IN IF ~Truthy(vgText) /\ ~Truthy(bbText) THEN Null
     ELSE Str(TrimEnd(Join(parts, <<"\n">>)))

\* combineResults(vgResult, bbResult)
CombineResults(vgResult, bbResult) ==
  LET vgText == IF vgResult.status = "fulfilled" THEN vgResult.value ELSE Null
      bbText == IF bbResult.status = "fulfilled" THEN bbResult.value ELSE Null
      parts == <<HEADER, <<>>>>
               \o (IF Truthy(vgText) THEN <<SanitizeForDisplay(vgText), <<>>>> ELSE <<>>)
               \o (IF Truthy(bbText) THEN <<SanitizeForDisplay(bbText), <<>>>> ELSE <<>>)
  IN IF ~Truthy(vgText) /\ ~Truthy(bbText) THEN Null
     ELSE Str(TrimEnd(Join(parts, <<"\n">>)))

\* no call of combineResults made yet
NoCombine == [called |-> FALSE, vg |-> Missing, bb |-> Missing, text |-> Null]

\* a call of combineResults
Combine(vgResult, bbResult) ==
  /\ combined' = [called |-> TRUE, vg |-> vgResult, bb |-> bbResult,
                  text |-> CombineResults(vgResult, bbResult)]
  /\ UNCHANGED <<brainVars, vg, bb, caps>>

\* ------------------------------------------------------------------------
\* The engine on an empty store
\* ------------------------------------------------------------------------

\* the instant at which the store is created
StartTime == DAY_MS

\* new BrainBoxDB(dbPath) where no file exists
Init ==
  /\ neurons = EmptyTable
  /\ synapses = EmptyTable
  /\ access_log = <<>>
  /\ logSeq = 0
  /\ sessions = CreateSession(EmptyTable, StartTime, StartTime)
  /\ dbOpen = TRUE
  /\ recentAccesses = <<>>
  /\ sessionId = StartTime
  /\ accessOrder = 0
  /\ now = StartTime
  /\ ret = Outcome("open")
  /\ calls = [record |-> 0, decay |-> 0, open |-> 0, tick |-> 0]
  /\ recalling = NoRecall
  /\ vg = NoVaultGraph
  /\ bb = NoBrainBox
  /\ caps = NoCapabilities
  /\ combined = NoCombine

\* ------------------------------------------------------------------------
\* Spec: one engine instance on an empty store; record, decay, recall, stats
\* and close in any order
\* ------------------------------------------------------------------------

MaxRecords == 2

MaxDecays == 1

PathX == <<"/", "x">>

PathFoo == <<"/", "f", "o", "o">>

QueryFixFoo == <<"f", "i", "x", " ", "F", "o", "o">>

Paths == {PathX, PathFoo}

Types == {"file", "tool"}

\* <<>> is record without a query
Queries == {<<>>, QueryFixFoo}

Limits == {1, 5}

RecordAny ==
  /\ calls.record < MaxRecords
  /\ \E path \in Paths, type \in Types, query \in Queries :
       Record(path, type, query)

DecayAny ==
  /\ calls.decay < MaxDecays
  /\ Decay

RecallAny ==
  \E type \in Types, limit \in Limits : Recall(QueryFixFoo, type, limit)

Next == RecordAny \/ DecayAny \/ RecallAny \/ Stats \/ Close

Spec == Init /\ [][Next]_vars

\* ------------------------------------------------------------------------
\* SpecDecay: one engine instance on an empty store whose caller records,
\* then calls decay() DecayBatch times in a row (long enough for neurons to
\* fall under the pruning thresholds), then records again
\* ------------------------------------------------------------------------

DecayBatch == 30

MaxBatchRecords == 4

PathBar == <<"/", "b", "a", "r">>

BatchPaths == {PathX, PathFoo, PathBar}

\* the caller is not inside its decay loop
Idle == calls.decay = 0 \/ calls.decay = DecayBatch

RecordIdle ==
  /\ Idle
  /\ calls.record < MaxBatchRecords
  /\ \E path \in BatchPaths : Record(path, "file", <<>>)

DecayInBatch ==
  /\ calls.decay < DecayBatch
  /\ Decay

RecallIdle ==
  /\ Idle
  /\ Recall(QueryFixFoo, "file", 5)

StatsIdle ==
  /\ Idle
  /\ Stats

CloseIdle ==
  /\ Idle
  /\ Close

NextDecay == RecordIdle \/ DecayInBatch \/ RecallIdle \/ StatsIdle \/ CloseIdle

SpecDecay == Init /\ [][NextDecay]_vars

\* ------------------------------------------------------------------------
\* SpecCtx: one engine instance on an empty store whose caller records one
\* file again and again, each time with a context not used before, except
\* for a few calls that repeat a context or give none
\* ------------------------------------------------------------------------

MaxCtxRecords == 22

MaxCtxRepeats == 1

\* the characters of the contexts; two of them need a JSON escape
CtxChars == <<"a", "b", "\"", "\\", "e">>

\* the k-th context, k in 1..25
Ctx(k) == <<CtxChars[((k - 1) \div 5) + 1], CtxChars[((k - 1) % 5) + 1]>>

\* the contexts given so far
CtxSeen == {access_log[i].query : i \in 1..Len(access_log)} \ {<<>>}

RecordNewContext ==
  /\ calls.record < MaxCtxRecords
  /\ Record(PathX, "file", Ctx(Cardinality(CtxSeen) + 1))

RecordOldContext ==
  /\ calls.record < MaxCtxRecords
  /\ Len(access_log) - Cardinality(CtxSeen) < MaxCtxRepeats
  /\ \E query \in {<<>>} \cup
                  (IF CtxSeen = {} THEN {}
                   ELSE {Ctx(1), Ctx(Cardinality(CtxSeen))}) :
       Record(PathX, "file", query)

NextCtx == RecordNewContext \/ RecordOldContext

SpecCtx == Init /\ [][NextCtx]_vars

\* ------------------------------------------------------------------------
\* SpecWin: a caller that records more files than the co-access window
\* holds, each a new one, except for a few extra steps: the record of a file
\* recorded before, or the construction of a new engine instance on the store
\* ------------------------------------------------------------------------

MaxWinRecords == 12

MaxWinExtras == 1

WinChars == <<"a", "b", "c", "d">>

\* the k-th path, k in 1..16
WinPath(k) ==
  <<"/", WinChars[((k - 1) \div 4) + 1], WinChars[((k - 1) % 4) + 1]>>

\* the extra steps taken so far
WinExtras == calls.open + (Len(access_log) - Cardinality(DOMAIN neurons))

RecordNewPath ==
  /\ calls.record < MaxWinRecords
  /\ Record(WinPath(Cardinality(DOMAIN neurons) + 1), "file", <<>>)

RecordOldPath ==
  /\ calls.record < MaxWinRecords
  /\ WinExtras < MaxWinExtras
  /\ neurons # EmptyTable
  /\ \E k \in {1, Cardinality(DOMAIN neurons)} :
       Record(WinPath(k), "file", <<>>)

OpenAgain ==
  /\ WinExtras < MaxWinExtras
  /\ Open

NextWin == RecordNewPath \/ RecordOldPath \/ OpenAgain

SpecWin == Init /\ [][NextWin]_vars

\* ------------------------------------------------------------------------
\* SpecRecall: one engine instance on an empty store whose caller works
\* through two files in turn, /d and /c, again and again, then through a
\* third, /a, many times with the context "deploy", then uses a tool with
\* the same context; it may recall at any point.  Long enough for synapses
\* to pass the spreading gates and for myelination to pass the fallback gate.
\* ------------------------------------------------------------------------

PairCount == 20

DeployCount == 21

ToolCount == 2

PathA == <<"/", "a">>

PathC == <<"/", "c">>

PathD == <<"/", "d">>

PathT == <<"/", "t">>

QueryDeploy == <<"d", "e", "p", "l", "o", "y">>

\* three keywords, one of them "deploy"
QueryDeployMore ==
  QueryDeploy \o <<" ", "x", "x", "x", " ", "y", "y", "y">>

RecallQueries == {QueryDeploy, QueryDeployMore}

RecallLimits == {1, 3, 5}

RecordPair ==
  /\ calls.record < 2 * PairCount
  /\ Record(IF calls.record % 2 = 0 THEN PathD ELSE PathC, "file", <<>>)

RecordDeploy ==
  /\ calls.record >= 2 * PairCount
  /\ calls.record < 2 * PairCount + DeployCount
  /\ Record(PathA, "file", QueryDeploy)

RecordTool ==
  /\ calls.record >= 2 * PairCount + DeployCount
  /\ calls.record < 2 * PairCount + DeployCount + ToolCount
  /\ Record(PathT, "tool", QueryDeploy)

RecallAtAnyPoint ==
  \E query \in RecallQueries, type \in Types, limit \in RecallLimits :
    Recall(query, type, limit)

NextRecall == RecordPair \/ RecordDeploy \/ RecordTool \/ RecallAtAnyPoint

SpecRecall == Init /\ [][NextRecall]_vars

\* ------------------------------------------------------------------------
\* SpecConverge: one engine instance on an empty store whose caller works
\* through /c and /d in turn, /d under the context "deploy", then through
\* /a many times under the same context; it may recall at any point.  /a
\* ends as the more myelinated of the two neurons that match "deploy", /d as
\* the one with the stronger synapse to /c.
\* ------------------------------------------------------------------------

TurnCount == 19

SourceCount == 22

\* two keywords, both of them substrings of "deploy"
QueryDeployDep == QueryDeploy \o <<" ", "d", "e", "p">>

ConvergeQueries == {QueryDeploy, QueryDeployDep}

RecordTurn ==
  /\ calls.record < 2 * TurnCount
  /\ IF calls.record % 2 = 0 THEN Record(PathC, "file", <<>>)
     ELSE Record(PathD, "file", QueryDeploy)

RecordSource ==
  /\ calls.record >= 2 * TurnCount
  /\ calls.record < 2 * TurnCount + SourceCount
  /\ Record(PathA, "file", QueryDeploy)

RecallConverging ==
  \E query \in ConvergeQueries, limit \in RecallLimits :
    Recall(query, "file", limit)

NextConverge == RecordTurn \/ RecordSource \/ RecallConverging

SpecConverge == Init /\ [][NextConverge]_vars

\* ------------------------------------------------------------------------
\* SpecVault: one call of recallVaultGraph and what its child process and
\* its timer may do after it: data on stdout, an error event, the close
\* event, the timeout, in any order
\* ------------------------------------------------------------------------

MaxChunks == 3

MaxErrorEvents == 1

\* a chunk that fills the capture by itself
FullChunk == [i \in 1..MAX_OUTPUT_BYTES |-> "x"]

\* the chunks the child may write
VgChunks ==
  {<<" ">>, <<"o", "k", "\n">>,
   <<"0", "1", "2", "3", "4", "5", "6", "7", "8", "9">>, FullChunk}

\* the prompts and vault paths of the caller, the empty string for a
\* missing one
VgTexts == {<<>>, <<"p">>}

\* the exit codes of the child: 0, 1, or null (-1) when a signal ended it
VgCodes == {0, 1, -1}

VgCallAny == \E prompt \in VgTexts, vaultPath \in VgTexts : VgCall(prompt, vaultPath)

VgDataAny ==
  /\ vg.chunks < MaxChunks
  /\ \E chunk \in VgChunks : VgData(chunk)

VgErrorAny ==
  /\ vg.errors < MaxErrorEvents
  /\ VgError

VgCloseAny == \E code \in VgCodes : VgClose(code)

NextVault == VgCallAny \/ VgDataAny \/ VgErrorAny \/ VgCloseAny \/ VgTimeout

SpecVault == Init /\ [][NextVault]_vars

\* the event loop runs the callback of a timer that is set and not cleared
SpecVaultLive == SpecVault /\ WF_vars(VgTimeout)

\* ------------------------------------------------------------------------
\* SpecBrainBox: recallBrainBox called several times, a call possibly made
\* while the imports and recalls of the calls before it are pending
\* ------------------------------------------------------------------------

MaxBbCalls == 3

\* the prompts of the caller, the empty string for a missing one
BbPrompts == {<<>>, <<"p">>}

\* how an import of the adapter may settle
ImportOutcomes == {"function", "nofunction", "rejected"}

\* how performRecall may settle
RecallSettles == {Str(<<"m", "e", "m">>), Null, Rejected}

BbCallAny ==
  /\ Len(bb.calls) < MaxBbCalls
  /\ \E prompt \in BbPrompts : BbCall(prompt)

BbPackageAny == \E c \in 1..MaxBbCalls, outcome \in ImportOutcomes : BbPackage(c, outcome)

BbDevAny == \E c \in 1..MaxBbCalls, outcome \in ImportOutcomes : BbDev(c, outcome)

BbLoadedAny == \E c \in 1..MaxBbCalls : BbLoaded(c)

BbRecalledAny == \E c \in 1..MaxBbCalls, outcome \in RecallSettles : BbRecalled(c, outcome)

NextBrainBox == BbCallAny \/ BbPackageAny \/ BbDevAny \/ BbLoadedAny \/ BbRecalledAny

SpecBrainBox == Init /\ [][NextBrainBox]_vars

\* ------------------------------------------------------------------------
\* SpecCaps: checkCapabilities called several times, a call possibly made
\* while the probes of the calls before it are pending
\* ------------------------------------------------------------------------

MaxCapCalls == 3

CapCallAny ==
  /\ Len(caps.calls) < MaxCapCalls
  /\ CapCall

CapWhichAny == \E c \in 1..MaxCapCalls, found \in BOOLEAN : CapWhich(c, found)

CapImportAny == \E c \in 1..MaxCapCalls, outcome \in ImportOutcomes : CapImport(c, outcome)

NextCaps == CapCallAny \/ CapWhichAny \/ CapImportAny

SpecCaps == Init /\ [][NextCaps]_vars

\* ------------------------------------------------------------------------
\* SpecCombine: combineResults called with any two settled results
\* ------------------------------------------------------------------------

\* the values a recall may be fulfilled with
Values ==
  {Null, Str(<<>>), Str(<<"v", "g">>), Str(<<"a", "\n", "b">>),
   Str(<<"m", "e", "m", " ">>), Str(<<" ">>), Str(<<"\n">>),
   Str(<<"\t", "x", " ", "y">>), Str(<<"b", "b", "\n">>)}

Settled == {Missing, Failed} \cup {Fulfilled(v) : v \in Values}

CombineAny == \E vgResult \in Settled, bbResult \in Settled : Combine(vgResult, bbResult)

NextCombine == CombineAny

SpecCombine == Init /\ [][NextCombine]_vars

\* ------------------------------------------------------------------------
\* Properties
\* ------------------------------------------------------------------------

\* C1: every neuron has 0 <= activation <= 1 and 0 <= myelination <= 0.95,
\* and every synapse has 0 <= weight <= 1, after any record and decay calls.
C1_NumericRanges ==
  /\ \A id \in DOMAIN neurons :
       /\ 0 <= neurons[id].activation /\ neurons[id].activation <= Scale
       /\ 0 <= neurons[id].myelination
       /\ neurons[id].myelination <= MYELIN_MAX
  /\ \A k \in DOMAIN synapses :
       0 <= synapses[k].weight /\ synapses[k].weight <= Scale

\* a neuron recorded twice and a synapse strengthened twice, both decayed
C1_Witness ==
  /\ calls.decay = DecayBatch
  /\ \E id \in DOMAIN neurons :
       neurons[id].access_count >= 2 /\ neurons[id].myelination > 0
  /\ \E k \in DOMAIN synapses : synapses[k].co_access_count >= 2

\* C2: after every operation, a record that failed part-way included, both
\* endpoints of every synapse are neurons of the store.
C2_ReferentialIntegrity ==
  \A k \in DOMAIN synapses : k[1] \in DOMAIN neurons /\ k[2] \in DOMAIN neurons

\* a record that raised after it had strengthened synapses of its neuron,
\* in a store from which decay has deleted a neuron
C2_Witness ==
  /\ ret.op = "record" /\ ret.raised
  /\ \E k \in DOMAIN synapses : k[1] = ret.id
  /\ \E i \in 1..Len(recentAccesses) : recentAccesses[i] \notin DOMAIN neurons

\* C6: after any record and decay calls, a further record with a non-empty
\* path runs to completion without raising.
C6_RecordCompletes == ret.op = "record" => ~ret.raised

\* C10: the synapse relation is symmetric: (a, b) exists iff (b, a) does,
\* with equal weight and equal co_access_count.
C10_SynapsesSymmetric ==
  \A k \in DOMAIN synapses :
    /\ <<k[2], k[1]>> \in DOMAIN synapses
    /\ synapses[<<k[2], k[1]>>].weight = synapses[k].weight
    /\ synapses[<<k[2], k[1]>>].co_access_count = synapses[k].co_access_count

\* pairs of different weights, one strengthened twice, after a decay batch
C10_Witness ==
  /\ calls.decay = DecayBatch
  /\ \E k1, k2 \in DOMAIN synapses :
       /\ synapses[k1].weight # synapses[k2].weight
       /\ synapses[k1].co_access_count >= 2

\* C4: a record call sets access_count of its neuron to 1 if the neuron did
\* not exist and otherwise increases it by exactly 1, and leaves access_count
\* of every other neuron unchanged; no operation decreases the access_count of
\* an existing neuron.
C4_AccessCount ==
  [][/\ \A id \in DOMAIN neurons \cap DOMAIN neurons' :
          neurons'[id].access_count >= neurons[id].access_count
     /\ calls'.record = calls.record + 1 =>
          /\ ret'.id \in DOMAIN neurons'
          /\ neurons'[ret'.id].access_count =
               IF ret'.id \in DOMAIN neurons
               THEN neurons[ret'.id].access_count + 1
               ELSE 1
          /\ \A id \in DOMAIN neurons \ {ret'.id} :
               /\ id \in DOMAIN neurons'
               /\ neurons'[id].access_count = neurons[id].access_count]_vars

\* a record that completed and created its neuron anew after decay had
\* deleted neurons and their log rows, beside a neuron recorded twice
C4_Witness ==
  /\ ret.op = "record" /\ ~ret.raised
  /\ Len(access_log) < logSeq
  /\ neurons[ret.id].access_count = 1
  /\ \E id \in DOMAIN neurons : neurons[id].access_count >= 2

\* the record call just made and the recall that follows it at once, with the
\* default type and limit and the record's query, which has a keyword
RecallFollowsRecord ==
  /\ ret.op = "record" /\ ~ret.raised /\ ret.type = "file"
  /\ Keywords(ret.query) # <<>>
  /\ ret'.op = "recall" /\ ret'.query = ret.query
  /\ ret'.type = "file" /\ ret'.limit = 5

\* C7 as stated: recall(q) immediately after record(p, file, q) returns
\* file:p as its first result, with activation_path "direct" and
\* confidence >= 0.4.
C7_RecordedIsFirst ==
  [][RecallFollowsRecord =>
       /\ ret'.results # <<>>
       /\ ret'.results[1].id = ret.id
       /\ ret'.results[1].activation_path = "direct"
       /\ ret'.results[1].confidence >= CONFIDENCE_GATE]_vars

\* C7, amended: recall(q) immediately after record(p, file, q) returns file:p
\* among its results with activation_path "direct" and confidence >= 0.4, and
\* every result placed before it has a confidence at least as high.
C7_RecordedIsReturned ==
  [][RecallFollowsRecord =>
       \E i \in 1..Len(ret'.results) :
         /\ ret'.results[i].id = ret.id
         /\ ret'.results[i].activation_path = "direct"
         /\ ret'.results[i].confidence >= CONFIDENCE_GATE
         /\ \A j \in 1..(i - 1) :
              ret'.results[j].confidence >= ret'.results[i].confidence]_vars

\* a recall of the query of the last record that returns the recorded neuron
\* second, behind a neuron of higher confidence
C7_Witness ==
  /\ ret.op = "recall" /\ ret.type = "file" /\ ret.limit = 5
  /\ calls.decay = 0
  /\ access_log # <<>>
  /\ access_log[Len(access_log)].query = ret.query
  /\ Len(ret.results) >= 2
  /\ ret.results[2].id = access_log[Len(access_log)].neuron_id
  /\ ret.results[2].activation_path = "direct"
  /\ ret.results[1].confidence > ret.results[2].confidence

\* the state right after the second of two record calls of one (path, file)
\* on the empty store
RecordedTwice ==
  /\ ret.op = "record" /\ ret.type = "file"
  /\ calls.record = 2 /\ calls.decay = 0
  /\ DOMAIN neurons = {ret.id}

C9_FirstPair ==
  /\ (ret.op = "record" /\ calls.record = 1) => synapses = EmptyTable
  /\ (ret.op = "record" /\ calls.record = 2 /\ calls.decay = 0
        /\ Cardinality(DOMAIN neurons) = 2) =>
       LET a == access_log[1].neuron_id
           b == access_log[2].neuron_id
       IN /\ DOMAIN synapses = {<<a, b>>, <<b, a>>}
          /\ \A k \in DOMAIN synapses :
               /\ synapses[k].weight = Scale \div 10
               /\ synapses[k].co_access_count = 1

\* two different neurons recorded one after the other
C9_Witness ==
  /\ ret.op = "record" /\ calls.record = 2 /\ calls.decay = 0
  /\ Len(access_log) = 2
  /\ access_log[1].neuron_id # access_log[2].neuron_id
  /\ ret.id = access_log[2].neuron_id
  /\ Cardinality(DOMAIN synapses) = 2

\* the decoded contexts list of a neuron
ContextsOf(ns, id) == JsonParse(ns[id].contexts).val

\* no two entries of the list are equal
Distinct(list) == Cardinality({list[i] : i \in 1..Len(list)}) = Len(list)

\* the list after a context that is not in it is added to its 20 entries
OldestDropped(old, query, new) ==
  (Len(old) = 20 /\ query # <<>> /\ IndexOf(old, query) = 0)
    => new = Tail(old) \o <<query>>

\* C3: after any record calls every neuron's contexts list has at most 20
\* entries, no two of them equal, and when a 21st distinct context is added
\* the oldest entry is the one dropped.
C3_ContextsBounded ==
  [][/\ \A id \in DOMAIN neurons' :
          /\ Len(ContextsOf(neurons', id)) <= 20
          /\ Distinct(ContextsOf(neurons', id))
     /\ (calls'.record = calls.record + 1 /\ ret'.id \in DOMAIN neurons)
          => OldestDropped(ContextsOf(neurons, ret'.id), ret'.query,
                           ContextsOf(neurons', ret'.id))]_vars

\* a full list that has lost its first context to a 21st one, its newest
\* entry the context of the record just made, after a call that repeated one
C3_Witness ==
  /\ ret.op = "record"
  /\ \E id \in DOMAIN neurons :
       LET list == ContextsOf(neurons, id) IN
       /\ Len(list) = 20
       /\ list[20] = ret.query
       /\ list[1] # Ctx(1)
       /\ Cardinality(CtxSeen) > 20
       /\ Len(access_log) > Cardinality(CtxSeen)

\* C5: in every reachable state of an engine instance, constructed on any
\* access log, the in-memory co-access window holds at most 10 ids.
C5_WindowBounded == Len(recentAccesses) <= 10

\* a full window: built by the constructor from a log of more than 10
\* neurons, or by a record of an 11th neuron
C5_Witness ==
  /\ Len(recentAccesses) = 10
  /\ Cardinality(DOMAIN neurons) > 10
  /\ calls.open >= 1
  /\ ret.op \in {"open", "record"}

\* C11: a neuron leaves the store only in a decay call, and only if after
\* that call's decay step its activation < 0.01, its myelination < 0.01 and
\* its access_count < 2; a neuron recorded at least twice is never deleted.
C11_DeletedOnlyByDecay ==
  [][/\ \A id \in DOMAIN neurons \ DOMAIN neurons' :
          /\ calls'.decay = calls.decay + 1
          /\ MulS(neurons[id].activation, (85 * Scale) \div 100)
               < Scale \div 100
          /\ MulS(neurons[id].myelination, (995 * Scale) \div 1000)
               < Scale \div 100
          /\ neurons[id].access_count < 2
     /\ \A id \in DOMAIN neurons :
          neurons[id].access_count >= 2 => id \in DOMAIN neurons']_vars

\* a decay call that deleted a neuron and kept one recorded twice whose
\* activation is under the threshold too
C11_Witness ==
  /\ ret.op = "decay" /\ ret.pruned_neurons >= 1
  /\ \E id \in DOMAIN neurons :
       /\ neurons[id].access_count >= 2
       /\ neurons[id].activation < Scale \div 100

\* C12 as stated: the access log is append-only: no operation removes or
\* changes an existing row, so the number of rows never decreases.
C12_AppendOnly ==
  [][/\ Len(access_log') >= Len(access_log)
     /\ SubSeq(access_log', 1, Len(access_log)) = access_log]_vars

\* C12, amended: every record call adds exactly one row at the end; recall,
\* stats and close leave the log as it is; a decay call removes the rows of
\* the neurons it deletes, and no other row, so the number of rows decreases
\* only when decay prunes a neuron.
C12_AppendOnlyButCascade ==
  [][/\ calls'.record = calls.record + 1 =>
          /\ Len(access_log') = Len(access_log) + 1
          /\ SubSeq(access_log', 1, Len(access_log)) = access_log
          /\ access_log'[Len(access_log')].neuron_id = ret'.id
     /\ ret'.op \in {"recall", "stats", "close"} => access_log' = access_log
     /\ calls'.decay = calls.decay + 1 =>
          access_log' =
            SelectSeq(access_log,
                      LAMBDA row : row.neuron_id \in DOMAIN neurons')]_vars

\* a log that has lost the rows of a deleted neuron and kept others
C12_Witness ==
  /\ calls.decay >= 1
  /\ Len(access_log) < logSeq
  /\ access_log # <<>>

\* C13: recall and stats are read-only: they leave every neuron, every
\* synapse, the access log, the session counters and the in-memory
\* co-access window unchanged.
C13_ReadOnly ==
  [][ret'.op \in {"recall", "stats"} =>
       /\ neurons' = neurons
       /\ synapses' = synapses
       /\ access_log' = access_log
       /\ sessions' = sessions
       /\ recentAccesses' = recentAccesses]_vars

\* a recall that returned a neuron, in a store that has synapses
C13_Witness ==
  /\ ret.op = "recall" /\ ret.results # <<>>
  /\ synapses # EmptyTable

\* the results of the recall just made that have the given activation_path
Returned(path) ==
  {ret.results[i] : i \in {j \in 1..Len(ret.results) :
                             ret.results[j].activation_path = path}}

\* what the recall just made produced on the given path, before the slice
Produced(path) ==
  {ret.produced[i] : i \in {j \in 1..Len(ret.produced) :
                              ret.produced[j].activation_path = path}}

\* C14: every result of recall(query, type, limit), direct, spread or
\* myelinated, is a neuron whose type equals the requested type.
C14_ResultsOfRequestedType ==
  ret.op = "recall" =>
    \A i \in 1..Len(ret.results) :
      /\ ret.results[i].type = ret.type
      /\ neurons[ret.results[i].id].type = ret.type

\* a recall of files that returned direct and spread results while a tool
\* that holds the query as a context is in the store
C14_Witness ==
  /\ ret.op = "recall" /\ ret.type = "file" /\ ret.query = QueryDeploy
  /\ Returned("direct") # {} /\ Returned("spread") # {}
  /\ NeuronId("tool", PathT) \in DOMAIN neurons

\* C15: for limit >= 1 recall returns at most limit results, in
\* non-increasing order of confidence, and they are the limit
\* highest-confidence entries of all that the three phases produced.
C15_TopByConfidence ==
  (ret.op = "recall" /\ ret.limit >= 1) =>
    LET n == Len(ret.results)
        ids == {ret.results[i].id : i \in 1..n}
    IN /\ n = IF Len(ret.produced) < ret.limit
              THEN Len(ret.produced) ELSE ret.limit
       /\ \A i \in 1..(n - 1) :
            ret.results[i].confidence >= ret.results[i + 1].confidence
       /\ \A i \in 1..n :
            \E j \in 1..Len(ret.produced) : ret.results[i] = ret.produced[j]
       /\ \A j \in 1..Len(ret.produced) :
            ret.produced[j].id \notin ids =>
              \A i \in 1..n :
                ret.produced[j].confidence <= ret.results[i].confidence

\* a recall that produced more than limit results, not in order
C15_Witness ==
  /\ ret.op = "recall"
  /\ Len(ret.produced) > ret.limit
  /\ ret.produced[1].confidence < ret.produced[2].confidence
  /\ ret.results # <<>>

C18_FallbackFills ==
  (ret.op = "recall" /\ ~ret.raised /\ Len(ret.results) < ret.limit) =>
    \A id \in DOMAIN neurons :
      (/\ neurons[id].type = ret.type
       /\ neurons[id].myelination \div 2 >= (15 * Scale) \div 100
       /\ \A r \in Produced("direct") \cup Produced("spread") : r.id # id)
      => \E i \in 1..Len(ret.results) : ret.results[i].id = id

\* a decay call in a store where two neurons were recorded once each and
\* nothing else was recorded
DecayAfterTwoRecordedOnce ==
  /\ calls.record = 2 /\ logSeq = 2
  /\ Cardinality(DOMAIN neurons) = 2
  /\ Cardinality(DOMAIN synapses) = 2
  /\ calls'.decay = calls.decay + 1

MaxSeedRecords == 12

MaxSeedExtras == 2

\* the path of the k-th record
SeedPath(k) == WinPath(IF k = 4 THEN 1 ELSE IF k < 4 THEN k ELSE k - 1)

\* the pauses of the caller: half an hour, two hours, or a day and an hour,
\* after which the log rows written before are out of the seed query's range
SeedPauses == {30 * MINUTE_MS, 2 * HOUR_MS, DAY_MS + HOUR_MS}

\* the pauses and constructions so far
SeedExtras == calls.open + calls.tick

\* where the caller's work may be interrupted
SeedStop == calls.record \in {1, 2} \/ calls.record = MaxSeedRecords

RecordNext ==
  /\ calls.record < MaxSeedRecords
  /\ Record(SeedPath(calls.record + 1), "file", <<>>)

CloseSeed ==
  /\ SeedStop
  /\ Close

PauseSeed ==
  /\ SeedStop
  /\ SeedExtras < MaxSeedExtras
  /\ \E ms \in SeedPauses : Tick(ms)

OpenSeed ==
  /\ SeedStop
  /\ SeedExtras < MaxSeedExtras
  /\ Open

\* at the end of its work the caller may call decay()
DecaySeed ==
  /\ calls.record = MaxSeedRecords
  /\ calls.decay < MaxDecays
  /\ Decay

NextSeed == RecordNext \/ CloseSeed \/ PauseSeed \/ OpenSeed \/ DecaySeed

SpecSeed == Init /\ [][NextSeed]_vars

\* ------------------------------------------------------------------------
\* The opening of an engine
\* ------------------------------------------------------------------------

\* the access-log rows that qualify for the seed query at this instant
Qualifying == {i \in 1..Len(access_log) : InSeedRange(access_log[i], now)}

\* row a is read no later than row b: ascending (timestamp, access_order)
ReadNoLater(a, b) ==
  \/ a.timestamp < b.timestamp
  \/ a.timestamp = b.timestamp /\ a.access_order <= b.access_order

\* the most recent qualifying row of a neuron id
LastRowOf(id) ==
  LET rows == {i \in Qualifying : access_log[i].neuron_id = id} IN
  access_log[CHOOSE i \in rows :
               \A j \in rows : ReadNoLater(access_log[j], access_log[i])]

\* open, record(a), record(b), close or not, reopen, record(c), within the
\* hour: the third row is the first of a new engine instance
ThirdAfterReopen ==
  /\ ret.op = "record"
  /\ ~ret.raised
  /\ now - access_log[1].timestamp < HOUR_MS
  /\ Len(access_log) = 3
  /\ Cardinality(DOMAIN neurons) = 3
  /\ access_log[1].access_order = 1
  /\ access_log[2].access_order = 2
  /\ access_log[3].access_order = 1

\* C20: when an engine is opened, its co-access window holds the distinct
\* neuron ids of the qualifying access-log rows, in the ascending
\* (timestamp, access_order) order of each id's most recent row, cut to the
\* 10 most recent ids; consequently open, record(/a), record(/b), close,
\* reopen, record(/c) yields the synapses /c -> /a, /a -> /c, /c -> /b and
\* /b -> /c.
C20_WindowSeeded ==
  /\ ret.op = "open" =>
       LET W == recentAccesses
           ids == {access_log[i].neuron_id : i \in Qualifying}
           held == {W[p] : p \in 1..Len(W)}
       IN /\ Cardinality(held) = Len(W)
          /\ held \subseteq ids
          /\ Len(W) = Min(CO_ACCESS_WINDOW_SIZE, Cardinality(ids))
          /\ \A p, q \in 1..Len(W) :
               p < q => ReadNoLater(LastRowOf(W[p]), LastRowOf(W[q]))
          /\ \A id \in ids \ held : \A p \in 1..Len(W) :
               ReadNoLater(LastRowOf(id), LastRowOf(W[p]))
  /\ ThirdAfterReopen =>
       LET a == access_log[1].neuron_id
           b == access_log[2].neuron_id
           c == access_log[3].neuron_id
       IN {<<c, a>>, <<a, c>>, <<c, b>>, <<b, c>>} \subseteq DOMAIN synapses

\* an engine opened on a log of more than 10 qualifying neurons and a row
\* that is out of the query's range
C20_Witness ==
  /\ ret.op = "open"
  /\ calls.open >= 1
  /\ Cardinality({access_log[i].neuron_id : i \in Qualifying}) > 10
  /\ Qualifying # 1..Len(access_log)
  /\ Len(recentAccesses) = 10

\* C21: close() is idempotent and transparent: a close changes nothing but
\* the handle, a close of a closed engine changes nothing at all, and a
\* record after a close reopens the store and acts on the window, session id
\* and access_order counter that the engine had before the close.
C21_CloseTransparent ==
  [][/\ ret'.op = "close" =>
          /\ ~dbOpen'
          /\ UNCHANGED <<storeVars, engineVars, now>>
     /\ ~dbOpen /\ ret'.op = "close" => UNCHANGED <<dbOpen, calls>>
     /\ ~dbOpen /\ ret'.op = "record" =>
          LET id == ret'.id
              row == access_log'[Len(access_log')]
          IN /\ dbOpen'
             /\ ~ret'.raised
             /\ sessionId' = sessionId
             /\ accessOrder' = accessOrder + 1
             /\ Len(access_log') = Len(access_log) + 1
             /\ row.neuron_id = id
             /\ row.session_id = sessionId
             /\ row.access_order = accessOrder + 1
             /\ sessions'[sessionId].total_accesses =
                  sessions[sessionId].total_accesses + 1
             /\ recentAccesses' = TrackInWindow(recentAccesses, id)
             /\ \A i \in 1..Len(recentAccesses) :
                  recentAccesses[i] # id =>
                    /\ <<id, recentAccesses[i]>> \in DOMAIN synapses'
                    /\ <<recentAccesses[i], id>> \in DOMAIN synapses'
    ]_vars

\* a closed engine that holds a window of several ids and has counted
\* several accesses
C21_Witness ==
  /\ ~dbOpen
  /\ ret.op = "close"
  /\ Len(recentAccesses) >= 2
  /\ accessOrder >= 2

\* C22: record fails as a whole: after a record call in which a statement
\* failed, neurons, synapses, access log and sessions are what they were
\* before the call.
C22_RecordFailsAsAWhole ==
  [][ret'.op = "record" /\ ret'.raised =>
       UNCHANGED <<neurons, synapses, access_log, sessions>>]_vars

\* ------------------------------------------------------------------------
\* SpecInput: one engine instance on an empty store whose caller passes
\* arguments that the engine does not expect, an empty path and limits that
\* are not positive, next to usual ones, always with the context or query
\* "deploy", while another program may leave a contexts text that is not
\* JSON in one row of the neurons table
\* ------------------------------------------------------------------------

MaxInputRecords == 3

InputPaths == {<<>>, PathA, PathC}

InputLimits == {0 - 2, 0 - 1, 0, 1}

\* a contexts text cut short: ["deploy
CutShort == <<"[", "\"">> \o QueryDeploy

\* the rows whose contexts text JSON.parse rejects
Undecodable(ns) == {id \in DOMAIN ns : ~JsonParse(ns[id].contexts).ok}

RecordInput ==
  /\ calls.record < MaxInputRecords
  /\ \E path \in InputPaths : Record(path, "file", QueryDeploy)

RecallInput == \E limit \in InputLimits : Recall(QueryDeploy, "file", limit)

\* an UPDATE of neurons.contexts, a TEXT column, by another program
ForeignWrite ==
  /\ Undecodable(neurons) = {}
  /\ \E id \in DOMAIN neurons :
       neurons' = [neurons EXCEPT ![id].contexts = CutShort]
  /\ ret' = Outcome("foreign")
  /\ UNCHANGED <<recalling, hostVars>>
  /\ UNCHANGED <<synapses, access_log, sessions, logSeq, dbOpen, engineVars,
                 now, calls>>

NextInput == RecordInput \/ RecallInput \/ ForeignWrite

SpecInput == Init /\ [][NextInput]_vars

\* C23: record with an empty path is a no-op that does not raise: neurons,
\* synapses, access log, session counters and co-access window stay as
\* they are.
C23_EmptyPathIsNoOp ==
  [][ret'.op = "record" /\ ret'.id = NeuronId(ret'.type, <<>>) =>
       /\ ~ret'.raised
       /\ UNCHANGED <<neurons, synapses, access_log, sessions,
                      recentAccesses>>]_vars

\* C24: recall with a limit of 0 or below returns the empty sequence without
\* raising; stated for the stores in which every contexts text decodes.
C24_NonPositiveLimitIsEmpty ==
  ret.op = "recall" /\ ret.limit <= 0 /\ Undecodable(neurons) = {} =>
    ~ret.raised /\ ret.results = <<>>

\* C25: a contexts text that cannot be decoded counts as the empty list: a
\* record on its neuron completes and leaves a contexts text that decodes,
\* and a recall completes and returns a result sequence.
C25_UndecodableIsEmpty ==
  [][Undecodable(neurons) # {} /\ ret'.op \in {"record", "recall"} =>
       /\ ~ret'.raised
       /\ ret'.op = "record" /\ ret'.id \in Undecodable(neurons) =>
            ret'.id \notin Undecodable(neurons')]_vars

\* C27: a record of id that completes on a window W of length L >= 1
\* strengthens both synapses between id and every W[i] # id with
\* delta = 0.1 * i / L, i counted from 1: an existing weight w becomes
\* min(w + delta * (1 - w), 1), a missing synapse is created with weight
\* delta; every other synapse stays as it is, and a member accessed more
\* recently never gets a smaller delta than an older one.
C27_HebbianStep ==
  [][ret'.op = "record" /\ ~ret'.raised /\ Len(recentAccesses) >= 1 =>
       LET W == recentAccesses
           L == Len(W)
           id == ret'.id
           delta == [i \in 1..L |-> (LEARNING_RATE * i) \div L]
           touched == UNION {{<<id, W[i]>>, <<W[i], id>>} :
                               i \in {j \in 1..L : W[j] # id}}
       IN /\ \A i \in 1..L : W[i] # id =>
               \A k \in {<<id, W[i]>>, <<W[i], id>>} :
                 /\ k \in DOMAIN synapses'
                 /\ synapses'[k].weight =
                      IF k \in DOMAIN synapses
                      THEN Min(synapses[k].weight
                                 + MulS(delta[i], Scale - synapses[k].weight),
                               Scale)
                      ELSE delta[i]
          /\ DOMAIN synapses' = DOMAIN synapses \cup touched
          /\ \A k \in DOMAIN synapses \ touched : synapses'[k] = synapses[k]
          /\ \A i, j \in 1..L : i < j => delta[i] <= delta[j]
    ]_vars

\* a record of a neuron that was in the window: its synapses to the other
\* members, created before with different weights, are strengthened
C27_Witness ==
  /\ ret.op = "record"
  /\ ~ret.raised
  /\ Len(recentAccesses) >= 3
  /\ \E k1, k2 \in DOMAIN synapses :
       /\ k1[1] = ret.id
       /\ k2[1] = ret.id
       /\ synapses[k1].co_access_count >= 2
       /\ synapses[k2].co_access_count >= 2
       /\ synapses[k1].weight # synapses[k2].weight

\* C28: after a record of id that completes, the co-access window is the
\* window before it without id, in the same order, with id at the tail and
\* without its head if that makes more than 10; it holds no id twice.
C28_WindowUpdate ==
  [][ret'.op = "record" /\ ~ret'.raised =>
       LET id == ret'.id
           others == SelectSeq(recentAccesses, LAMBDA x : x # id)
           pushed == Append(others, id)
           W == recentAccesses'
       IN /\ W = IF Len(pushed) > 10
                 THEN SubSeq(pushed, 2, Len(pushed))
                 ELSE pushed
          /\ Cardinality({W[i] : i \in 1..Len(W)}) = Len(W)
    ]_vars

\* a full window that has lost its head, after a record of more than 10
\* neurons one of which was recorded twice
C28_Witness ==
  /\ ret.op = "record"
  /\ ~ret.raised
  /\ Len(recentAccesses) = 10
  /\ Cardinality(DOMAIN neurons) > 10
  /\ Len(access_log) > Cardinality(DOMAIN neurons)
  /\ recentAccesses[10] = ret.id

\* C29: the window seeded on open takes ids only from access-log rows of
\* the last hour: every id in it has a row written at most one hour before
\* the open.
C29_LastHourOnly ==
  ret.op = "open" =>
    \A p \in 1..Len(recentAccesses) :
      \E i \in 1..Len(access_log) :
        /\ access_log[i].neuron_id = recentAccesses[p]
        /\ now - access_log[i].timestamp <= HOUR_MS

\* C30: the counts returned by decay() are what the call removed:
\* pruned_neurons the number of neurons, pruned_synapses the number of
\* synapses, that were in the store before the call and are not after it.
C30_CountsAreRemovals ==
  [][ret'.op = "decay" =>
       /\ ret'.pruned_neurons =
            Cardinality(DOMAIN neurons \ DOMAIN neurons')
       /\ ret'.pruned_synapses =
            Cardinality(DOMAIN synapses \ DOMAIN synapses')]_vars

\* C30, amended: pruned_neurons is the number of neurons the call removed;
\* pruned_synapses is the number of removed synapses whose decayed weight
\* was below 0.05, and every other removed synapse had an endpoint among the
\* removed neurons and is not counted.
C30_CountsArePruneSteps ==
  [][ret'.op = "decay" =>
       LET goneNeurons == DOMAIN neurons \ DOMAIN neurons'
           goneSynapses == DOMAIN synapses \ DOMAIN synapses'
           weak == {k \in goneSynapses :
                      MulS(synapses[k].weight, (98 * Scale) \div 100)
                        < (5 * Scale) \div 100}
       IN /\ ret'.pruned_neurons = Cardinality(goneNeurons)
          /\ ret'.pruned_synapses = Cardinality(weak)
          /\ \A k \in DOMAIN synapses :
               MulS(synapses[k].weight, (98 * Scale) \div 100)
                 < (5 * Scale) \div 100 => k \in goneSynapses
          /\ \A k \in goneSynapses \ weak :
               k[1] \in goneNeurons \/ k[2] \in goneNeurons]_vars

\* three neurons recorded once each are gone after the 29th decay, with the
\* synapses that the first decay had left, and the call counts no synapse
C30_Witness ==
  /\ calls.record = 3 /\ logSeq = 3
  /\ calls.decay = 29
  /\ ret.op = "decay"
  /\ ret.pruned_neurons = 3
  /\ ret.pruned_synapses = 0
  /\ neurons = EmptyTable /\ synapses = EmptyTable

\* ------------------------------------------------------------------------
\* SpecInterleave: a writer records /c once and /a many times with the
\* context "deploy", then runs decay until /c is pruned, while a recall of
\* "deploy" by another engine instance on the same store runs query by
\* query; the recall moves while the writer records, and before and after
\* the decay call that prunes
\* ------------------------------------------------------------------------

InterRecords == 18

PruneDecays == 29

WriterRecord ==
  /\ calls.record < 1 + InterRecords
  /\ IF calls.record = 0
     THEN Record(PathC, "file", <<>>)
     ELSE Record(PathA, "file", QueryDeploy)

WriterDecay ==
  /\ calls.record = 1 + InterRecords
  /\ calls.decay < PruneDecays
  /\ Decay

\* the instants at which the recall may move
ReaderAwake == calls.decay \in {0, PruneDecays - 1, PruneDecays}

ReaderBegin ==
  /\ ReaderAwake
  /\ BeginRecall(QueryDeploy, "file", 5)

ReaderSearch ==
  /\ ReaderAwake
  /\ StepSearch

ReaderSynapses ==
  /\ ReaderAwake
  /\ StepSynapses

ReaderTarget ==
  /\ ReaderAwake
  /\ StepTarget

ReaderTop ==
  /\ ReaderAwake
  /\ StepTop

NextInterleave ==
  \/ WriterRecord
  \/ WriterDecay
  \/ ReaderBegin
  \/ ReaderSearch
  \/ ReaderSynapses
  \/ ReaderTarget
  \/ ReaderTop

SpecInterleave == Init /\ [][NextInterleave]_vars

\* C26: a recall between whose queries another writer's record and decay
\* calls make neurons and synapses appear and disappear completes without
\* raising and returns a result sequence.
C26_RecallTolerates ==
  /\ ~recalling.raised
  /\ ret.op = "recall" => ~ret.raised
  /\ recalling.pc = "done" =>
       \A i \in 1..Len(recalling.results) :
         recalling.results[i].activation_path
           \in {"direct", "spread", "myelinated"}

\* a recall that has returned after it read a synapse of a weight with which
\* the spread passes the gate and then found no neuron for its target: the
\* target is not among the activated ones and is gone from the store
C26_Witness ==
  /\ recalling.pc = "done"
  /\ ret.op = "recall"
  /\ ~ret.raised
  /\ Len(ret.results) >= 1
  /\ \E i \in 1..Len(recalling.outgoing) :
       /\ recalling.outgoing[i].weight >= (6 * Scale) \div 10
       /\ recalling.outgoing[i].target \notin recalling.activated
       /\ recalling.outgoing[i].target \notin DOMAIN neurons

\* C31: the session row of the engine instance has total_accesses equal to
\* the number of records the instance has completed and tokens_used equal to
\* 1500 for each completed record of a file plus 500 for each completed
\* record of another type; it is so after decay, recall, stats and close as
\* well, which leave the row as it is.
C31_SessionCounts ==
  LET files == {i \in 1..Len(access_log) :
                  neurons[access_log[i].neuron_id].type = "file"}
      completed == IF ret.op = "record" /\ ret.raised
                   THEN calls.record - 1 ELSE calls.record
  IN /\ sessionId \in DOMAIN sessions
     /\ Len(access_log) = completed
     /\ sessions[sessionId].total_accesses = completed
     /\ sessions[sessionId].tokens_used =
          1500 * Cardinality(files) + 500 * (completed - Cardinality(files))

\* a file and a tool recorded, then a decay
C31_Witness ==
  /\ ret.op = "decay"
  /\ calls.record = 2
  /\ sessions[sessionId].total_accesses = 2
  /\ sessions[sessionId].tokens_used = 2000

\* the spread confidence the target t gets from the direct result d of the
\* recall just made: d.confidence * weight * (1 + myelination of t)
SpreadFrom(d, t) ==
  MulS(MulS(d.confidence, synapses[<<d.id, t>>].weight),
       Scale + neurons[t].myelination)

\* the positions, in the order phase 1 emitted them, of the direct results
\* from which phase 2 can activate t: a synapse of weight >= 0.3 to t and a
\* spread confidence >= 0.4
SourcesOf(t) ==
  {j \in 1..Len(ret.produced) :
     /\ ret.produced[j].activation_path = "direct"
     /\ <<ret.produced[j].id, t>> \in DOMAIN synapses
     /\ synapses[<<ret.produced[j].id, t>>].weight >= (3 * Scale) \div 10
     /\ SpreadFrom(ret.produced[j], t) >= (4 * Scale) \div 10}

C40_NoIdTwice ==
  ret.op = "recall" =>
    /\ \A i, j \in 1..Len(ret.results) :
         ret.results[i].id = ret.results[j].id => i = j
    /\ \A i, j \in 1..Len(ret.produced) :
         ret.produced[i].id = ret.produced[j].id => i = j

\* a recall of two keywords that both match the direct results, with limit
\* above the number of results so that phase 3 runs, whose spread result has
\* two sources and enough myelination for phase 3
C40_Witness ==
  /\ ret.op = "recall"
  /\ ret.query = QueryDeployDep
  /\ Len(ret.results) < ret.limit
  /\ Cardinality(Returned("direct")) = 2
  /\ \E r \in Returned("spread") :
       /\ Cardinality(SourcesOf(r.id)) = 2
       /\ neurons[r.id].myelination \div 2 >= (15 * Scale) \div 100

\* C38: in every state reachable by record, decay, recall and close on one
\* engine instance, every id held in the co-access window identifies a
\* neuron that exists in the store.
C38_WindowIdsExist ==
  \A i \in 1..Len(recentAccesses) : recentAccesses[i] \in DOMAIN neurons

\* C39: when decay() has returned, every remaining synapse has weight
\* >= 0.05 and every remaining neuron has activation >= 0.01 or myelination
\* >= 0.01 or access_count >= 2; between decay calls a record can leave
\* synapses of weight below 0.05, none below the smallest delta, 0.01.
C39_DecayedThenPruned ==
  /\ (ret.op = "decay" /\ ~ret.raised) =>
       /\ \A k \in DOMAIN synapses :
            synapses[k].weight >= SYNAPSE_PRUNE_THRESHOLD
       /\ \A id \in DOMAIN neurons :
            \/ neurons[id].activation >= NEURON_PRUNE_LEVEL
            \/ neurons[id].myelination >= NEURON_PRUNE_LEVEL
            \/ neurons[id].access_count >= NEURON_PRUNE_ACCESSES
  /\ \A k \in DOMAIN synapses :
       synapses[k].weight >= Delta(1, CO_ACCESS_WINDOW_SIZE)

\* a decay that prunes synapses which the records before it, made with a
\* full window, left with weight below 0.05, and that leaves others
C39_Witness ==
  /\ ret.op = "decay" /\ ~ret.raised
  /\ calls.record > CO_ACCESS_WINDOW_SIZE
  /\ ret.pruned_synapses >= 2
  /\ synapses # EmptyTable
  /\ \A id \in DOMAIN neurons : neurons[id].access_count < NEURON_PRUNE_ACCESSES =>
        neurons[id].activation >= NEURON_PRUNE_LEVEL

\* C33: in recallVaultGraph, for every interleaving of the timeout, the
\* child's error event, its close event and its stdout data events, the
\* promise is settled at most once, and with a non-null value only when the
\* first settling event is a close with exit code 0 whose trimmed captured
\* stdout has at least 10 characters; in every other case, a missing prompt
\* or vaultPath included, the value is null.
C33_SettledOnce ==
  LET good == /\ vg.first = "close"
              /\ vg.code = 0
              /\ Len(Trim(vg.stdout)) >= MIN_OUTPUT
  IN /\ vg.resolves <= 1
     /\ vg.promise = "fulfilled" =>
          /\ vg.pc = "called" => vg.resolves = 1
          /\ vg.value = IF good THEN Str(Trim(vg.stdout)) ELSE Null

\* the promise settled by a close with code 0 and 10 characters of trimmed
\* output, after the timeout fired or an error event came
C33_Witness ==
  /\ vg.promise = "fulfilled"
  /\ vg.proc = "closed" /\ vg.code = 0
  /\ Len(Trim(vg.stdout)) >= MIN_OUTPUT
  /\ vg.first \in {"timeout", "error"}
  /\ vg.value = Null

\* C34: the promise recallVaultGraph returned is always eventually settled,
\* whatever the child does, and the timer is cleared only by a handler that
\* also settles the promise.
C34_EventuallySettled ==
  /\ (vg.pc # "idle") ~> (vg.promise = "fulfilled")
  /\ [](vg.timer = "cleared" => vg.promise = "fulfilled")

\* the promise settled by the timer while the child never ended
C34_Witness ==
  /\ vg.promise = "fulfilled"
  /\ vg.first = "timeout"
  /\ vg.proc = "running" /\ vg.killed
  /\ vg.errors = MaxErrorEvents

\* C35: for any interleaving of concurrent recallBrainBox calls, if the
\* import succeeds then every call, including one that starts while the
\* first import is pending, obtains the performRecall function.
C35_EveryCallLoads ==
  bb.performRecall => \A c \in 1..Len(bb.calls) : bb.calls[c].got # "null"

\* C36: for any number and interleaving of checkCapabilities calls, the
\* `which vaultgraph` probe and the brainbox import probe are each started
\* at most once, and all calls return the same capability values.
C36_ProbedOnce ==
  /\ caps.which <= 1
  /\ caps.imports <= 1
  /\ \A c, d \in 1..Len(caps.calls) :
       (caps.calls[c].pc = "done" /\ caps.calls[d].pc = "done") =>
         caps.calls[c].value = caps.calls[d].value

\* a settled result that is fulfilled with a non-empty value
Present(r) == r.status = "fulfilled" /\ r.value.t = "string" /\ r.value.s # <<>>

\* the positions at which k occurs in s
Occurrences(s, k) ==
  {i \in 1..(Len(s) - Len(k) + 1) : SubSeq(s, i, i + Len(k) - 1) = k}

\* C37: combineResults(vg, bb) returns null exactly when neither argument is
\* a fulfilled result with a non-empty value; otherwise it returns text that
\* begins with the '[neurovault]' header and contains the sanitized value of
\* each fulfilled non-empty result, VaultGraph's before BrainBox's.
C37_ContainsEachValue ==
  combined.called =>
    LET v == SanitizeForDisplay(combined.vg.value)
        b == SanitizeForDisplay(combined.bb.value)
    IN /\ combined.text = Null <=> ~Present(combined.vg) /\ ~Present(combined.bb)
       /\ combined.text # Null =>
            /\ SubSeq(combined.text.s, 1, Len(HEADER)) = HEADER
            /\ Present(combined.vg) => Occurrences(combined.text.s, v) # {}
            /\ Present(combined.bb) => Occurrences(combined.text.s, b) # {}
            /\ (Present(combined.vg) /\ Present(combined.bb)) =>
                 \E i \in Occurrences(combined.text.s, v) :
                   \E j \in Occurrences(combined.text.s, b) :
                     Len(HEADER) < i /\ i + Len(v) <= j

\* C37, amended: combineResults(vg, bb) returns null exactly when neither
\* argument is a fulfilled result with a non-empty value; otherwise the text
\* is the header followed, for each fulfilled non-empty result, VaultGraph's
\* before BrainBox's, by an empty line and the sanitized value, with the
\* white space at the end of the whole text removed.
C37_HeaderThenValues ==
  combined.called =>
    LET gap == <<"\n", "\n">>
        v == IF Present(combined.vg)
             THEN gap \o SanitizeForDisplay(combined.vg.value) ELSE <<>>
        b == IF Present(combined.bb)
             THEN gap \o SanitizeForDisplay(combined.bb.value) ELSE <<>>
    IN /\ combined.text = Null <=> ~Present(combined.vg) /\ ~Present(combined.bb)
       /\ combined.text # Null => combined.text = Str(TrimEnd(HEADER \o v \o b))

\* a call with two fulfilled non-empty results, the second ending in white
\* space after it is sanitized, the first holding a control character
C37_Witness ==
  /\ combined.called
  /\ Present(combined.vg) /\ Present(combined.bb)
  /\ combined.vg.value.s # SanitizeForDisplay(combined.vg.value)
  /\ TrimEnd(SanitizeForDisplay(combined.bb.value)) # SanitizeForDisplay(combined.bb.value)
  /\ combined.text # Null

====
